---- MODULE Spec2Model ----
(***************************************************************************)
(* Model of dental_agents/agents/appointment_agent.py: the duration        *)
(* predictor, the conflict detector, the AppointmentCreated and            *)
(* AppointmentCompleted handlers and the monitor sweep, over a relational  *)
(* store whose schema may drift.                                           *)
(*                                                                         *)
(* Time is counted in minutes.  A date is a day number, a time of day is a *)
(* minute of the day, and a timestamp (datetime) is an absolute minute,    *)
(* day * 1440 + minute of day.  A missing value (SQL NULL, Python None or  *)
(* 0 where the code tests truthiness) is NULL.                             *)
(***************************************************************************)
EXTENDS Integers, Sequences, FiniteSets, TLC

VARIABLES
    now,            \* the wall clock, datetime.now(tz=IST)
    appts,          \* table appointments: id -> row
    schema,         \* which optional tables and columns the store has
    history,        \* table visit_procedures: the actual_duration_min values per procedure code
    audit,          \* table appointment_audit_logs, append only
    notifications,  \* the calls of create_notification, in order
    writes,         \* every UPDATE of appointments the agent issued, in order
    sweep,          \* appointment_monitor_sweep: its position and locals
    cr,             \* on_appointment_created: per invocation, its position and locals
    events,         \* how many events the dispatcher has handed to the handlers
    pd,             \* a direct call of _predict_duration_minutes: arguments and result
    visits,         \* table visits, in insertion order
    vprocs,         \* the rows of visit_procedures that belong to a visit
    cp              \* on_appointment_completed: its position and locals

vars == <<now, appts, schema, history, audit, notifications, writes, sweep, cr, events, pd, visits, vprocs, cp>>

NULL == 0 - 1

----------------------------------------------------------------------------
(* Bounds of the model *)

\* how many monitor ticks a behaviour runs
MaxTicks == 2

\* how many events the dispatcher hands to the handlers in a behaviour
MaxEvents == 2

\* how many historical samples a procedure code has at most
MaxSamples == 6

----------------------------------------------------------------------------
(* Program constants *)

GRACE_MIN_DELAY == 10
GRACE_MIN_NO_SHOW == 45
DEFAULT_FALLBACK_MIN == 30
MIN_SAMPLES == 5
PRED_LO == 10
PRED_HI == 240
PROC_MAX_LEN == 50

MinutesPerDay == 24 * 60

TerminalStatuses == {"CANCELLED", "COMPLETED", "NO_SHOW"}
Statuses == {"SCHEDULED"} \cup TerminalStatuses

----------------------------------------------------------------------------
(* Time utilities *)

\* a timestamp value as stored or as sent in a payload: a date and a time of day;
\* NoDT is the missing (or unparseable) one
NoDT == [d |-> NULL, t |-> NULL]
DT(d, t) == [d |-> d, t |-> t]

\* _parse_dt: the zoned instant of a timestamp value, None if missing or unparseable
_parse_dt(val) ==
    IF val.d = NULL \/ val.t = NULL THEN NULL
    ELSE val.d * MinutesPerDay + val.t

\* _combine_date_time: date + time of day, None if either part is missing
_combine_date_time(d, t) ==
    IF d = NULL \/ t = NULL THEN NULL
    ELSE d * MinutesPerDay + t

\* datetime.date(): the calendar day of an instant
DateOf(dt) == dt \div MinutesPerDay

\* strftime("%H:%M:%S"): the time of day of an instant, the date dropped
TimeOfDay(dt) == dt % MinutesPerDay

\* closed intervals: touching endpoints overlap
_overlaps_touching(a_start, a_end, b_start, b_end) ==
    a_start <= b_end /\ b_start <= a_end

_overlaps(a_start, a_end, b_start, b_end) ==
    a_start < b_end /\ b_start < a_end

_fetch_appt_datetime(appt_row) ==
    LET adt == _parse_dt(appt_row.appointment_datetime)
    IN  IF adt # NULL THEN adt
        ELSE _combine_date_time(appt_row.scheduled_date, appt_row.scheduled_time)

\* without the fallback on start + duration
_fetch_appt_end_datetime_explicit_only(appt_row, start_dt, duration_min) ==
    IF start_dt = NULL THEN NULL
    ELSE _combine_date_time(appt_row.scheduled_date, appt_row.scheduled_end_time)

_fetch_appt_end_datetime(appt_row, start_dt, duration_min) ==
    IF start_dt = NULL THEN NULL
    ELSE LET end_dt == _combine_date_time(appt_row.scheduled_date, appt_row.scheduled_end_time)
         IN  IF end_dt # NULL THEN end_dt ELSE start_dt + duration_min

----------------------------------------------------------------------------
(* Procedure types: strings are sequences of characters *)

LowerLetters == <<"a","b","c","d","e","f","g","h","i","j","k","l","m",
                  "n","o","p","q","r","s","t","u","v","w","x","y","z">>
UpperLetters == <<"A","B","C","D","E","F","G","H","I","J","K","L","M",
                  "N","O","P","Q","R","S","T","U","V","W","X","Y","Z">>

\* str.upper() on one character
UpperChar(c) ==
    IF \E i \in 1..26 : LowerLetters[i] = c
    THEN UpperLetters[CHOOSE i \in 1..26 : LowerLetters[i] = c]
    ELSE c

\* str.strip(): leading and trailing blanks removed
RECURSIVE LStrip(_)
LStrip(s) == IF s # <<>> /\ Head(s) = " " THEN LStrip(Tail(s)) ELSE s
RECURSIVE RStrip(_)
RStrip(s) == IF s # <<>> /\ s[Len(s)] = " " THEN RStrip(SubSeq(s, 1, Len(s) - 1)) ELSE s
Strip(s) == RStrip(LStrip(s))

\* str.replace(a, b) for single characters
ReplaceChar(s, a, b) == [i \in 1..Len(s) |-> IF s[i] = a THEN b ELSE s[i]]

Truncate(s, n) == IF Len(s) > n THEN SubSeq(s, 1, n) ELSE s

CONSULTATION == <<"C","O","N","S","U","L","T","A","T","I","O","N">>
CHECKUP == <<"C","H","E","C","K","U","P">>
SCALING == <<"S","C","A","L","I","N","G">>
FILLING == <<"F","I","L","L","I","N","G">>
EXTRACTION == <<"E","X","T","R","A","C","T","I","O","N">>
ROOT_CANAL == <<"R","O","O","T","_","C","A","N","A","L">>
IMPLANT == <<"I","M","P","L","A","N","T">>

_norm_proc_type(s) ==
    LET u == [i \in 1..Len(Strip(s)) |-> UpperChar(Strip(s)[i])]
        t == ReplaceChar(ReplaceChar(u, "-", "_"), " ", "_")
    IN  Truncate(IF t = <<>> THEN CONSULTATION ELSE t, PROC_MAX_LEN)

\* DEFAULT_DURATIONS_MIN.get(proc, 30)
DefaultDuration(proc) ==
    CASE proc = CONSULTATION -> 20
      [] proc = CHECKUP -> 20
      [] proc = SCALING -> 45
      [] proc = FILLING -> 60
      [] proc = EXTRACTION -> 45
      [] proc = ROOT_CANAL -> 90
      [] proc = IMPLANT -> 120
      [] OTHER -> DEFAULT_FALLBACK_MIN

----------------------------------------------------------------------------
(* Duration predictor *)

\* the values actual_duration_min takes in the model; NULL and 0 are rows
\* without a usable duration
SampleValues == {NULL, 0, 1, 20, 25, 30, 500}

\* a table's rows for one procedure code: how many rows hold each value
SampleBags == {b \in [SampleValues -> 0..MaxSamples] :
                 b[NULL] + b[0] + b[1] + b[20] + b[25] + b[30] + b[500] <= MaxSamples}

Repeat(v, n) == [i \in 1..n |-> v]

\* SELECT actual_duration_min ... WHERE actual_duration_min IS NOT NULL AND
\* actual_duration_min > 0 ORDER BY actual_duration_min
RECURSIVE OrderedPositive(_, _)
OrderedPositive(bag, S) ==
    IF S = {} THEN <<>>
    ELSE LET m == CHOOSE x \in S : \A y \in S : x <= y
         IN  (IF m > 0 THEN Repeat(m, bag[m]) ELSE <<>>) \o OrderedPositive(bag, S \ {m})

SelectDurations(hist, proc) ==
    IF proc \in DOMAIN hist THEN OrderedPositive(hist[proc], SampleValues) ELSE <<>>

Max2(a, b) == IF a >= b THEN a ELSE b
Min2(a, b) == IF a <= b THEN a ELSE b

\* lines 181-185: vals is sorted; Python indexes from 0
Median(vals) ==
    LET mid == Len(vals) \div 2
    IN  IF Len(vals) % 2 = 1 THEN vals[mid + 1]
        ELSE (vals[mid] + vals[mid + 1]) \div 2

Clamp(med) == Max2(PRED_LO, Min2(med, PRED_HI))

\* a failing store access: f.tab the table lookup, f.col the column lookup,
\* f.qry the durations query
Faults == [tab : BOOLEAN, col : BOOLEAN, qry : BOOLEAN]
NoFaults == [tab |-> FALSE, col |-> FALSE, qry |-> FALSE]

\* the column the durations query filters on (lines 141-159)
DetectedColumn(sch, f) ==
    IF f.col \/ sch.vp_col = "none" THEN "procedure_type" ELSE sch.vp_col

\* the median returned as it is
_predict_no_clamp(sch, hist, procedure_type, f) ==
    LET proc == _norm_proc_type(procedure_type)
        vals == SelectDurations(hist, proc)
    IN  IF f.tab \/ ~sch.vp_table THEN DefaultDuration(proc)
        ELSE IF f.qry \/ DetectedColumn(sch, f) # sch.vp_col THEN DefaultDuration(proc)
        ELSE IF Len(vals) >= MIN_SAMPLES THEN Median(vals)
        ELSE DefaultDuration(proc)

\* without the try/except of lines 135 and 188: a failing access raises
_predict_raises(sch, hist, procedure_type, f) ==
    LET proc == _norm_proc_type(procedure_type)
        vals == SelectDurations(hist, proc)
    IN  IF f.tab \/ f.qry \/ DetectedColumn(sch, f) # sch.vp_col THEN NULL
        ELSE IF ~sch.vp_table THEN DefaultDuration(proc)
        ELSE IF Len(vals) >= MIN_SAMPLES THEN Clamp(Median(vals))
        ELSE DefaultDuration(proc)

\* _predict_duration_minutes(conn, procedure_type); the result NULL stands for
\* an exception leaving the function
_predict_duration_minutes(sch, hist, procedure_type, f) ==
    LET proc == _norm_proc_type(procedure_type)
        vals == SelectDurations(hist, proc)
    IN  IF f.tab \/ ~sch.vp_table THEN DefaultDuration(proc)
        ELSE IF f.qry \/ DetectedColumn(sch, f) # sch.vp_col THEN DefaultDuration(proc)
        ELSE IF Len(vals) >= MIN_SAMPLES THEN Clamp(Median(vals))
        ELSE DefaultDuration(proc)

----------------------------------------------------------------------------
(* The store and the notification collaborator *)

At(d, h, m) == d * MinutesPerDay + h * 60 + m

Row(id, patient_id, doctor_id, type, status, d, t, te, adt, room, pred) ==
    [id |-> id, patient_id |-> patient_id, doctor_id |-> doctor_id, type |-> type,
     status |-> status, scheduled_date |-> d, scheduled_time |-> t,
     scheduled_end_time |-> te, appointment_datetime |-> adt,
     room |-> room, predicted_duration_min |-> pred]

\* the rows of a table in id order
RECURSIVE RowsOf(_, _)
RowsOf(tbl, ids) ==
    IF ids = {} THEN <<>>
    ELSE LET m == CHOOSE x \in ids : \A y \in ids : x <= y
         IN  <<tbl[m]>> \o RowsOf(tbl, ids \ {m})

\* create_notification(user_id, title, notif_type, related_id, scheduled_at);
\* role, tick and db_status record for whom, in which sweep pass and at which
\* stored status of the appointment the call was made
Notification(user_id, role, title, notif_type, related_id, scheduled_at, tick) ==
    [user_id |-> user_id, role |-> role, title |-> title, notif_type |-> notif_type,
     related_id |-> related_id, scheduled_at |-> scheduled_at, tick |-> tick,
     db_status |-> IF related_id \in DOMAIN appts THEN appts[related_id].status ELSE "NONE"]

\* one row of appointment_audit_logs
AuditEntry(appt_id, action, meta, tick) ==
    [appointment_id |-> appt_id, action |-> action, meta |-> meta, tick |-> tick]

\* _write_audit: appends if the table exists and the insert succeeds; never raises
_write_audit(log, appt_id, action, meta, tick, ok) ==
    IF schema.audit_table /\ ok THEN Append(log, AuditEntry(appt_id, action, meta, tick))
    ELSE log

IdleSweep == [pc |-> "idle", rows |-> <<>>, i |-> 0, now |-> 0, tick |-> 0, outcome |-> <<>>]
\* the invocations of on_appointment_created the dispatcher may have running
Handlers == {1, 2}
IdleCreated == [pc |-> "idle"]
AllIdle == cp.pc = "idle" /\ \A h \in Handlers : cr[h].pc = "idle"
IdlePredict == [pc |-> "idle"]
IdleCompleted == [pc |-> "idle"]

----------------------------------------------------------------------------
(* appointment_monitor_sweep *)

\* lines 416-420: today's rows are read once, then the clock
SweepRead ==
    /\ sweep.pc = "idle"
    /\ AllIdle
    /\ sweep.tick < MaxTicks
    /\ LET today == DateOf(now)
           ids == {id \in DOMAIN appts : appts[id].scheduled_date = today}
       IN  sweep' = [pc |-> "rows", rows |-> RowsOf(appts, ids), i |-> 1,
                     now |-> now, tick |-> sweep.tick + 1, outcome |-> <<>>]
    /\ UNCHANGED <<now, appts, schema, history, audit, notifications, writes, cr, events, pd, visits, vprocs, cp>>

\* the thresholds with the boundary minute included (>= for >)
NoShowDue_inclusive(at, start_dt) == at >= start_dt + GRACE_MIN_NO_SHOW
DelayDue_inclusive(at, start_dt) == at >= start_dt + GRACE_MIN_DELAY

\* lines 435 and 463
NoShowDue(at, start_dt) == at > start_dt + GRACE_MIN_NO_SHOW
DelayDue(at, start_dt) == at > start_dt + GRACE_MIN_DELAY

\* line 438: UPDATE appointments SET status='NO_SHOW' WHERE id=%s
NoShowUpdate(tbl, appt_id) ==
    IF appt_id \in DOMAIN tbl THEN [tbl EXCEPT ![appt_id].status = "NO_SHOW"] ELSE tbl

StatusWrite(appt_id, tick) ==
    [id |-> appt_id, column |-> "status", value |-> "NO_SHOW", tick |-> tick,
     old_status |-> IF appt_id \in DOMAIN appts THEN appts[appt_id].status ELSE "NONE"]

NoShowNotifications(appt, tick) ==
    (IF appt.patient_id # NULL
     THEN <<Notification(appt.patient_id, "patient", "Missed Appointment",
                         "APPOINTMENT_NO_SHOW", appt.id, NULL, tick)>>
     ELSE <<>>)
    \o
    (IF appt.doctor_id # NULL
     THEN <<Notification(appt.doctor_id, "doctor", "No-show Alert",
                         "APPOINTMENT_NO_SHOW", appt.id, NULL, tick)>>
     ELSE <<>>)

DelayNotifications(appt, tick) ==
    IF appt.doctor_id # NULL
    THEN <<Notification(appt.doctor_id, "doctor", "Appointment Running Late",
                        "APPOINTMENT_DELAY", appt.id, NULL, tick)>>
    ELSE <<>>

\* what the store answered in one iteration: for the UPDATE "ok", "rejected" or
\* "none" (not issued); for the audit INSERT "ok", "skipped" or "none"
SweepOutcome(appt, at, update_ok, audit_ok) ==
    LET start_dt == _fetch_appt_datetime(appt)
        issued == /\ appt.status \notin TerminalStatuses
                  /\ start_dt # NULL
                  /\ NoShowDue(at, start_dt)
    IN  [update |-> IF ~issued THEN "none" ELSE IF update_ok THEN "ok" ELSE "rejected",
         audit |-> IF ~issued \/ ~update_ok THEN "none"
                   ELSE IF schema.audit_table /\ audit_ok THEN "ok" ELSE "skipped"]

\* one iteration in which a rejected UPDATE is not caught: the pass ends there
SweepRow_aborting(update_ok, audit_ok) ==
    /\ sweep.pc = "rows"
    /\ sweep.i <= Len(sweep.rows)
    /\ LET appt == sweep.rows[sweep.i]
           start_dt == _fetch_appt_datetime(appt)
           due == appt.status \notin TerminalStatuses /\ start_dt # NULL
                  /\ NoShowDue(sweep.now, start_dt)
       IN  /\ IF due /\ update_ok
              THEN /\ appts' = NoShowUpdate(appts, appt.id)
                   /\ writes' = Append(writes, StatusWrite(appt.id, sweep.tick))
                   /\ audit' = _write_audit(audit, appt.id, "NO_SHOW",
                                             [source |-> "python_agent"], sweep.tick, audit_ok)
                   /\ notifications' = notifications \o NoShowNotifications(appt, sweep.tick)
              ELSE UNCHANGED <<appts, audit, notifications, writes>>
           /\ sweep' = [sweep EXCEPT !.i = sweep.i + 1,
                                     !.pc = IF due /\ ~update_ok THEN "idle" ELSE "rows",
                                     !.outcome = Append(sweep.outcome,
                                         SweepOutcome(appt, sweep.now, update_ok, audit_ok))]
    /\ UNCHANGED <<now, schema, history, cr, events, pd, visits, vprocs, cp>>

\* lines 422-472: one iteration of the loop over the rows read; update_ok and
\* audit_ok say whether the store accepts the UPDATE and the audit INSERT
SweepRow(update_ok, audit_ok) ==
    /\ sweep.pc = "rows"
    /\ sweep.i <= Len(sweep.rows)
    /\ LET appt == sweep.rows[sweep.i]
           start_dt == _fetch_appt_datetime(appt)
       IN  IF appt.status \in TerminalStatuses \/ start_dt = NULL
           THEN UNCHANGED <<appts, audit, notifications, writes>>
           ELSE IF NoShowDue(sweep.now, start_dt)
           THEN /\ IF update_ok
                   THEN /\ appts' = NoShowUpdate(appts, appt.id)
                        /\ writes' = Append(writes, StatusWrite(appt.id, sweep.tick))
                        /\ audit' = _write_audit(audit, appt.id, "NO_SHOW",
                                                  [source |-> "python_agent"], sweep.tick, audit_ok)
                   ELSE UNCHANGED <<appts, writes, audit>>
                /\ notifications' = notifications \o NoShowNotifications(appt, sweep.tick)
           ELSE IF DelayDue(sweep.now, start_dt)
           THEN /\ notifications' = notifications \o DelayNotifications(appt, sweep.tick)
                /\ UNCHANGED <<appts, audit, writes>>
           ELSE UNCHANGED <<appts, audit, notifications, writes>>
    /\ sweep' = [sweep EXCEPT !.i = sweep.i + 1,
                              !.outcome = Append(sweep.outcome,
                                  SweepOutcome(sweep.rows[sweep.i], sweep.now, update_ok, audit_ok))]
    /\ UNCHANGED <<now, schema, history, cr, events, pd, visits, vprocs, cp>>

\* the loop is over: the sweep returns
SweepDone ==
    /\ sweep.pc = "rows"
    /\ sweep.i > Len(sweep.rows)
    /\ sweep' = [sweep EXCEPT !.pc = "idle"]
    /\ UNCHANGED <<now, appts, schema, history, audit, notifications, writes, cr, events, pd, visits, vprocs, cp>>

----------------------------------------------------------------------------
(* _detect_conflicts *)

Conflict(type, row, s) ==
    [type |-> type, with_appointment_id |-> row.id, at |-> s, status |-> row.status]

\* lines 270-278 and 292-300: the conflicts among the rows a query returned
RECURSIVE ScanRows(_, _, _, _)
ScanRows(rows, type, start_dt, end_dt) ==
    IF rows = <<>> THEN <<>>
    ELSE LET row == Head(rows)
             s == _fetch_appt_datetime(row)
             dur == IF row.predicted_duration_min = NULL THEN 0 ELSE row.predicted_duration_min
             e == _fetch_appt_end_datetime(row, s, IF dur = 0 THEN DEFAULT_FALLBACK_MIN ELSE dur)
             rest == ScanRows(Tail(rows), type, start_dt, end_dt)
         IN  IF s # NULL /\ e # NULL /\ _overlaps(start_dt, end_dt, s, e)
             THEN <<Conflict(type, row, s)>> \o rest
             ELSE rest

\* the doctor's active appointments, the one of the event included (no id<>%s)
DoctorRows_with_self(tbl, doctor_id, appt_id) ==
    RowsOf(tbl, {id \in DOMAIN tbl : /\ tbl[id].doctor_id = doctor_id
                                     /\ tbl[id].status \notin TerminalStatuses})

\* lines 259-269: the other active appointments of the doctor
DoctorRows(tbl, doctor_id, appt_id) ==
    RowsOf(tbl, {id \in DOMAIN tbl : /\ tbl[id].doctor_id = doctor_id
                                     /\ id # appt_id
                                     /\ tbl[id].status \notin TerminalStatuses})

\* the value a row holds in a room column, if the table has that column
RoomColumn(sch, row, col) == IF sch.room_col = col THEN row.room ELSE NULL

\* lines 281-291: the other active appointments in the room
RoomRows(tbl, sch, room_id, appt_id) ==
    RowsOf(tbl, {id \in DOMAIN tbl : /\ RoomColumn(sch, tbl[id], "operatory_room_id") = room_id
                                     /\ id # appt_id
                                     /\ tbl[id].status \notin TerminalStatuses})

\* line 257
HasOperatory(sch) == sch.room_col = "operatory_room_id"

\* the SELECTs name predicted_duration_min and scheduled_end_time: without one
\* of these columns, or if the store rejects a query, the function raises
DetectRaises(sch, ok) == ~ok \/ ~sch.pred_col \/ ~sch.end_col

_detect_conflicts(tbl, sch, appt_id, doctor_id, start_dt, end_dt, operatory_room_id) ==
    ScanRows(DoctorRows(tbl, doctor_id, appt_id), "DOCTOR", start_dt, end_dt)
    \o
    (IF HasOperatory(sch) /\ operatory_room_id # NULL
     THEN ScanRows(RoomRows(tbl, sch, operatory_room_id, appt_id), "OPERATORY", start_dt, end_dt)
     ELSE <<>>)

----------------------------------------------------------------------------
(* on_appointment_created *)

Payload(id, patient, doctor, type, op_id, op_room_id, adt, d, t) ==
    [appointmentId |-> id, patientId |-> patient, doctorId |-> doctor, type |-> type,
     operatoryId |-> op_id, operatoryRoomId |-> op_room_id,
     appointmentDateTime |-> adt, scheduledDate |-> d, scheduledTime |-> t]

\* Python's `a or b` on values whose missing form is NULL
Or(a, b) == IF a # NULL THEN a ELSE b

Finished(h, how) == cr' = [cr EXCEPT ![h] = [cr[h] EXCEPT !.pc = "done", !.outcome = how]]

\* lines 305-311: no appointment id, no action
CreatedBegin(h, payload) ==
    /\ cr[h].pc = "idle"
    /\ cp.pc = "idle"
    /\ sweep.pc = "idle"
    /\ events < MaxEvents
    /\ events' = events + 1
    /\ cr' = [cr EXCEPT ![h] =
                [pc |-> IF payload.appointmentId = NULL THEN "done" ELSE "fetch",
                 outcome |-> IF payload.appointmentId = NULL THEN "no_id" ELSE "running",
                 payload |-> payload, appt_id |-> payload.appointmentId]]
    /\ UNCHANGED <<now, appts, schema, history, audit, notifications, writes, sweep, pd, visits, vprocs, cp>>

\* lines 325-345: patient, doctor, type, room and start from the row, else the payload
Resolved(row, payload) ==
    [patient_id |-> Or(row.patient_id, payload.patientId),
     doctor_id |-> Or(row.doctor_id, payload.doctorId),
     appt_type |-> IF row.type # <<>> THEN row.type
                   ELSE IF payload.type # <<>> THEN payload.type ELSE CONSULTATION,
     operatory_room_id |-> Or(Or(RoomColumn(schema, row, "operatory_id"), payload.operatoryId),
                              payload.operatoryRoomId),
     start_dt |-> Or(Or(_fetch_appt_datetime(row), _parse_dt(payload.appointmentDateTime)),
                     _combine_date_time(payload.scheduledDate, payload.scheduledTime))]

\* the fetch without the test of line 322: a missing row is taken as an empty one
CreatedFetch_unchecked(h, ok) ==
    /\ cr[h].pc = "fetch"
    /\ LET row == IF cr[h].appt_id \in DOMAIN appts THEN appts[cr[h].appt_id]
                  ELSE Row(cr[h].appt_id, NULL, NULL, <<>>, "SCHEDULED", NULL, NULL, NULL,
                           NoDT, NULL, NULL)
       IN  cr' = [cr EXCEPT ![h] = [pc |-> "predict", row |-> row]
                                   @@ Resolved(row, cr[h].payload) @@ cr[h]]
    /\ UNCHANGED <<now, appts, schema, history, audit, notifications, writes, sweep, events, pd, visits, vprocs, cp>>

\* lines 314-345: the row is read; a failing SELECT leaves the handler, a
\* missing row ends it
CreatedFetch(h, ok) ==
    /\ cr[h].pc = "fetch"
    /\ IF ~ok THEN Finished(h, "raised")
       ELSE IF cr[h].appt_id \notin DOMAIN appts THEN Finished(h, "not_found")
       ELSE cr' = [cr EXCEPT ![h] =
                     [pc |-> "predict", row |-> appts[cr[h].appt_id]]
                     @@ Resolved(appts[cr[h].appt_id], cr[h].payload) @@ cr[h]]
    /\ UNCHANGED <<now, appts, schema, history, audit, notifications, writes, sweep, events, pd, visits, vprocs, cp>>

\* lines 347-348
CreatedPredict(h, f) ==
    /\ cr[h].pc = "predict"
    /\ LET dur_min == _predict_duration_minutes(schema, history, cr[h].appt_type, f)
       IN  IF dur_min = NULL THEN Finished(h, "predict_raised")
           ELSE cr' = [cr EXCEPT ![h] =
                         [pc |-> "update", dur_min |-> dur_min, faults |-> f,
                          end_dt |-> IF cr[h].start_dt # NULL THEN cr[h].start_dt + dur_min
                                     ELSE NULL] @@ cr[h]]
    /\ UNCHANGED <<now, appts, schema, history, audit, notifications, writes, sweep, events, pd, visits, vprocs, cp>>

\* the UPDATE of the predicted fields, also cancelling the appointment
PredictedUpdate_cancelling(tbl, sch, appt_id, duration_min, start_dt) ==
    IF appt_id \notin DOMAIN tbl THEN tbl
    ELSE [tbl EXCEPT ![appt_id] =
            [@ EXCEPT !.predicted_duration_min = IF sch.pred_col THEN duration_min ELSE @,
                      !.scheduled_end_time = IF sch.end_col THEN TimeOfDay(start_dt + duration_min)
                                             ELSE @,
                      !.status = "CANCELLED"]]

\* no UPDATE of the predicted fields at all
PredictedUpdate_skipped(tbl, sch, appt_id, duration_min, start_dt) == tbl

\* lines 237-249: the UPDATE of the predicted fields
PredictedUpdate(tbl, sch, appt_id, duration_min, start_dt) ==
    IF appt_id \notin DOMAIN tbl THEN tbl
    ELSE [tbl EXCEPT ![appt_id] =
            [@ EXCEPT !.predicted_duration_min = IF sch.pred_col THEN duration_min ELSE @,
                      !.scheduled_end_time = IF sch.end_col THEN TimeOfDay(start_dt + duration_min)
                                             ELSE @]]

PredictedWrite(appt_id, duration_min) ==
    [id |-> appt_id, column |-> "predicted", value |-> duration_min, tick |-> 0,
     old_status |-> IF appt_id \in DOMAIN appts THEN appts[appt_id].status ELSE "NONE"]

\* line 350, _update_predicted_fields: nothing without a start or without
\* either column; a rejected UPDATE is swallowed
CreatedUpdate(h, ok) ==
    /\ cr[h].pc = "update"
    /\ IF cr[h].start_dt # NULL /\ ok /\ (schema.pred_col \/ schema.end_col)
       THEN /\ appts' = PredictedUpdate(appts, schema, cr[h].appt_id, cr[h].dur_min, cr[h].start_dt)
            /\ writes' = Append(writes, PredictedWrite(cr[h].appt_id, cr[h].dur_min))
       ELSE UNCHANGED <<appts, writes>>
    /\ cr' = [cr EXCEPT ![h].pc = "detect"]
    /\ UNCHANGED <<now, schema, history, audit, notifications, sweep, events, pd, visits, vprocs, cp>>

\* lines 352-354: an exception of _detect_conflicts leaves the handler
CreatedDetect(h, ok) ==
    /\ cr[h].pc = "detect"
    /\ IF cr[h].start_dt # NULL /\ cr[h].end_dt # NULL /\ cr[h].doctor_id # NULL
       THEN IF DetectRaises(schema, ok) THEN Finished(h, "raised")
            ELSE cr' = [cr EXCEPT ![h] =
                          [pc |-> "audit", detected |-> TRUE,
                           conflicts |-> _detect_conflicts(appts, schema, cr[h].appt_id,
                                             cr[h].doctor_id, cr[h].start_dt, cr[h].end_dt,
                                             cr[h].operatory_room_id)] @@ cr[h]]
       ELSE cr' = [cr EXCEPT ![h] = [pc |-> "audit", detected |-> FALSE, conflicts |-> <<>>] @@ cr[h]]
    /\ UNCHANGED <<now, appts, schema, history, audit, notifications, writes, sweep, events, pd, visits, vprocs, cp>>

\* the audit step with the reminders requested before the cursor is closed
CreatedAudit_notifying(h, ok) ==
    /\ cr[h].pc = "audit"
    /\ notifications' = notifications \o
          (IF cr[h].start_dt # NULL /\ cr[h].patient_id # NULL
           THEN <<Notification(cr[h].patient_id, "patient", "Appointment Reminder (2h)",
                               "APPOINTMENT_REMINDER", cr[h].appt_id, cr[h].start_dt - 120, 0)>>
           ELSE <<>>)
    /\ audit' = _write_audit(audit, cr[h].appt_id, "CREATED",
                             [source |-> "python_agent", predicted_duration_min |-> cr[h].dur_min,
                              conflicts |-> cr[h].conflicts], 0, ok)
    /\ cr' = [cr EXCEPT ![h].pc = "notify"]
    /\ UNCHANGED <<now, appts, schema, history, writes, sweep, events, pd, visits, vprocs, cp>>

\* line 356
CreatedAudit(h, ok) ==
    /\ cr[h].pc = "audit"
    /\ audit' = _write_audit(audit, cr[h].appt_id, "CREATED",
                             [source |-> "python_agent", predicted_duration_min |-> cr[h].dur_min,
                              conflicts |-> cr[h].conflicts], 0, ok)
    /\ cr' = [cr EXCEPT ![h].pc = "notify"]
    /\ UNCHANGED <<now, appts, schema, history, notifications, writes, sweep, events, pd, visits, vprocs, cp>>

\* one notification to the doctor per conflict found
RECURSIVE ConflictNotifications_each(_)
ConflictNotifications_each(c) ==
    IF c.conflicts = <<>> \/ c.doctor_id = NULL THEN <<>>
    ELSE <<Notification(c.doctor_id, "doctor", "Appointment Conflict Detected",
                        "APPOINTMENT_CONFLICT", c.appt_id, NULL, 0)
             @@ [meta |-> <<Head(c.conflicts)>>]>>
         \o ConflictNotifications_each([c EXCEPT !.conflicts = Tail(c.conflicts)])

\* lines 359-368
ConflictNotifications(c) ==
    IF c.conflicts # <<>> /\ c.doctor_id # NULL
    THEN <<Notification(c.doctor_id, "doctor", "Appointment Conflict Detected",
                        "APPOINTMENT_CONFLICT", c.appt_id, NULL, 0)
             @@ [meta |-> c.conflicts]>>
    ELSE <<>>

\* one lead time, a reminder due exactly now included (>= for >)
ReminderFor_inclusive(c, at, hrs, patient_title, doctor_title) ==
    LET when == c.start_dt - hrs * 60
    IN  IF when >= at
        THEN <<Notification(c.patient_id, "patient", patient_title,
                            "APPOINTMENT_REMINDER", c.appt_id, when, 0)>>
             \o (IF c.doctor_id # NULL
                 THEN <<Notification(c.doctor_id, "doctor", doctor_title,
                                     "APPOINTMENT_REMINDER", c.appt_id, when, 0)>>
                 ELSE <<>>)
        ELSE <<>>

\* lines 373-394: one lead time
ReminderFor(c, at, hrs, patient_title, doctor_title) ==
    LET when == c.start_dt - hrs * 60
    IN  IF when > at
        THEN <<Notification(c.patient_id, "patient", patient_title,
                            "APPOINTMENT_REMINDER", c.appt_id, when, 0)>>
             \o (IF c.doctor_id # NULL
                 THEN <<Notification(c.doctor_id, "doctor", doctor_title,
                                     "APPOINTMENT_REMINDER", c.appt_id, when, 0)>>
                 ELSE <<>>)
        ELSE <<>>

\* lines 370-394
ReminderNotifications(c, at) ==
    IF c.start_dt # NULL /\ c.patient_id # NULL
    THEN ReminderFor(c, at, 24, "Appointment Reminder (24h)", "Upcoming Appointment (24h)")
         \o ReminderFor(c, at, 2, "Appointment Reminder (2h)", "Upcoming Appointment (2h)")
    ELSE <<>>

\* lines 358-394: the notifications, once the cursor is closed
CreatedNotify(h) ==
    /\ cr[h].pc = "notify"
    /\ notifications' = notifications \o ConflictNotifications(cr[h])
                                       \o ReminderNotifications(cr[h], now)
    /\ Finished(h, "completed")
    /\ UNCHANGED <<now, appts, schema, history, audit, writes, sweep, events, pd, visits, vprocs, cp>>

\* the handler has returned (or raised): the dispatcher may hand it the next event
CreatedReturn(h) ==
    /\ cr[h].pc = "done"
    /\ cr' = [cr EXCEPT ![h] = IdleCreated]
    /\ UNCHANGED <<now, appts, schema, history, audit, notifications, writes, sweep, events, pd, visits, vprocs, cp>>

----------------------------------------------------------------------------
(* on_appointment_completed *)

CompletedPayload(id, linked_case_id) == [appointmentId |-> id, linkedCaseId |-> linked_case_id]

Ended(how) == cp' = [cp EXCEPT !.pc = "done", !.outcome = how]

\* lines 483-492
CompletedBegin(payload) ==
    /\ AllIdle
    /\ sweep.pc = "idle"
    /\ events < MaxEvents
    /\ events' = events + 1
    /\ cp' = [pc |-> IF payload.appointmentId = NULL THEN "done" ELSE "fetch",
              outcome |-> IF payload.appointmentId = NULL THEN "no_id" ELSE "running",
              appt_id |-> payload.appointmentId, linked_case_id |-> payload.linkedCaseId]
    /\ UNCHANGED <<now, appts, schema, history, audit, notifications, writes, sweep, cr, pd,
                   visits, vprocs>>

\* lines 495-514
CompletedFetch(ok) ==
    /\ cp.pc = "fetch"
    /\ IF ~ok THEN Ended("raised")
       ELSE IF cp.appt_id \notin DOMAIN appts THEN Ended("not_found")
       ELSE LET appt == appts[cp.appt_id]
            IN  cp' = [pc |-> "visit", patient_id |-> appt.patient_id,
                       doctor_id |-> appt.doctor_id,
                       appt_type |-> IF appt.type # <<>> THEN appt.type ELSE CONSULTATION] @@ cp
    /\ UNCHANGED <<now, appts, schema, history, audit, notifications, writes, sweep, cr, events,
                   pd, visits, vprocs>>

VisitsOf(appt_id) == {i \in DOMAIN visits : visits[i].appointment_id = appt_id}

\* lines 516-534: the visit of the appointment is looked up, or inserted as
\* OPEN; a rejected query leaves the handler
CompletedVisit(ok) ==
    /\ cp.pc = "visit"
    /\ IF ~ok THEN Ended("raised") /\ UNCHANGED visits
       ELSE IF ~schema.visits_table
       THEN cp' = [pc |-> "procedure", visit_id |-> NULL] @@ cp /\ UNCHANGED visits
       ELSE IF VisitsOf(cp.appt_id) # {}
       THEN /\ cp' = [pc |-> "procedure",
                      visit_id |-> visits[CHOOSE i \in VisitsOf(cp.appt_id) :
                                            \A j \in VisitsOf(cp.appt_id) : i <= j].id] @@ cp
            /\ UNCHANGED visits
       ELSE /\ visits' = Append(visits, [id |-> Len(visits) + 1, appointment_id |-> cp.appt_id,
                                          patient_id |-> cp.patient_id, doctor_id |-> cp.doctor_id,
                                          linked_case_id |-> cp.linked_case_id, status |-> "OPEN"])
            /\ cp' = [pc |-> "procedure", visit_id |-> Len(visits) + 1] @@ cp
    /\ UNCHANGED <<now, appts, schema, history, audit, notifications, writes, sweep, cr, events,
                   pd, vprocs>>

\* lines 544-550 insert into the column procedure_code
SeedInsertRaises(sch, ok) == ~ok \/ sch.vp_col # "procedure_code"

\* lines 536-550: a visit without procedure rows gets a seed row with a freshly
\* predicted duration; f are the failures inside the prediction, ok says
\* whether the store accepts the handler's own queries
CompletedProcedure(f, ok) ==
    /\ cp.pc = "procedure"
    /\ IF cp.visit_id = NULL THEN cp' = [cp EXCEPT !.pc = "audit"] /\ UNCHANGED vprocs
       ELSE IF ~ok THEN Ended("raised") /\ UNCHANGED vprocs
       ELSE IF ~schema.vp_table \/ \E i \in DOMAIN vprocs : vprocs[i].visit_id = cp.visit_id
       THEN cp' = [cp EXCEPT !.pc = "audit"] /\ UNCHANGED vprocs
       ELSE LET predicted == _predict_duration_minutes(schema, history, cp.appt_type, f)
            IN  IF predicted = NULL THEN Ended("predict_raised") /\ UNCHANGED vprocs
                ELSE IF SeedInsertRaises(schema, ok)
                THEN /\ cp' = [pc |-> "done", outcome |-> "raised", predicted |-> predicted,
                               faults |-> f] @@ cp
                     /\ UNCHANGED vprocs
                ELSE /\ vprocs' = Append(vprocs, [visit_id |-> cp.visit_id,
                                                   procedure_code |-> _norm_proc_type(cp.appt_type),
                                                   qty |-> 1, predicted_duration_min |-> predicted,
                                                   actual_duration_min |-> NULL])
                     /\ cp' = [pc |-> "audit", predicted |-> predicted, faults |-> f] @@ cp
    /\ UNCHANGED <<now, appts, schema, history, audit, notifications, writes, sweep, cr, events,
                   pd, visits>>

\* line 552
CompletedAudit(ok) ==
    /\ cp.pc = "audit"
    /\ audit' = _write_audit(audit, cp.appt_id, "COMPLETED", [source |-> "python_agent"], 0, ok)
    /\ cp' = [cp EXCEPT !.pc = "notify"]
    /\ UNCHANGED <<now, appts, schema, history, notifications, writes, sweep, cr, events, pd,
                   visits, vprocs>>

\* lines 554-562
CompletedNotify ==
    /\ cp.pc = "notify"
    /\ notifications' = notifications \o
          (IF cp.patient_id # NULL
           THEN <<Notification(cp.patient_id, "patient", "Appointment Completed",
                               "APPOINTMENT_COMPLETED", cp.appt_id, NULL, 0)>>
           ELSE <<>>)
    /\ Ended("completed")
    /\ UNCHANGED <<now, appts, schema, history, audit, writes, sweep, cr, events, pd,
                   visits, vprocs>>

CompletedReturn ==
    /\ cp.pc = "done"
    /\ cp' = IdleCompleted
    /\ UNCHANGED <<now, appts, schema, history, audit, notifications, writes, sweep, cr, events,
                   pd, visits, vprocs>>

----------------------------------------------------------------------------
(* A direct call of _predict_duration_minutes *)

PredictCall(procedure_type, f) ==
    /\ pd.pc = "idle"
    /\ pd' = [pc |-> "done", procedure_type |-> procedure_type, faults |-> f,
              result |-> _predict_duration_minutes(schema, history, procedure_type, f)]
    /\ UNCHANGED <<now, appts, schema, history, audit, notifications, writes, sweep, cr, events,
                   visits, vprocs, cp>>

PredictReturn ==
    /\ pd.pc = "done"
    /\ pd' = IdlePredict
    /\ UNCHANGED <<now, appts, schema, history, audit, notifications, writes, sweep, cr, events,
                   visits, vprocs, cp>>

----------------------------------------------------------------------------
(* The environment of the sweep: the clock and the other writers of the table *)

\* the instants monitor ticks are evaluated at
NowValues == {At(1, 9, 0), At(1, 9, 10), At(1, 9, 11), At(1, 9, 45), At(1, 9, 46),
              At(1, 9, 50), At(1, 10, 31)}

\* time passes between events
Advance ==
    /\ sweep.pc = "idle"
    /\ AllIdle
    /\ \E t \in NowValues : t > now /\ now' = t
    /\ UNCHANGED <<appts, schema, history, audit, notifications, writes, sweep, cr, events, pd, visits, vprocs, cp>>

\* the booking flow or the front desk cancels or completes an active appointment
ExternalStatusChange ==
    /\ \E id \in DOMAIN appts, st \in {"CANCELLED", "COMPLETED"} :
          /\ appts[id].status \notin TerminalStatuses
          /\ appts' = [appts EXCEPT ![id].status = st]
    /\ UNCHANGED <<now, schema, history, audit, notifications, writes, sweep, cr, events, pd, visits, vprocs, cp>>

DefaultSchema ==
    [audit_table |-> TRUE, visits_table |-> TRUE, vp_table |-> TRUE, vp_col |-> "procedure_code",
     pred_col |-> TRUE, end_col |-> TRUE, room_col |-> "operatory_id"]

\* the first appointment of the day: 09:00, stored as date + time
SweepRows1 ==
    {Row(1, p, d, <<>>, st, 1, 9 * 60, NULL, NoDT, NULL, NULL) :
        p \in {NULL, 11}, d \in {NULL, 21}, st \in {"SCHEDULED", "CANCELLED"}}

\* the second: 09:35 today as date + time or as a combined timestamp, no
\* resolvable start, or 09:00 tomorrow
SweepRows2 ==
    {Row(2, 12, 21, <<>>, st, w[1], w[2], NULL, w[3], NULL, NULL) :
        st \in {"SCHEDULED", "NO_SHOW"},
        w \in {<<1, 9 * 60 + 35, NoDT>>, <<1, NULL, DT(1, 9 * 60 + 35)>>,
               <<1, NULL, NoDT>>, <<2, 9 * 60, NoDT>>}}

SweepInit ==
    /\ now = At(1, 9, 0)
    /\ \E r1 \in SweepRows1, r2 \in SweepRows2 : appts = (1 :> r1) @@ (2 :> r2)
    /\ \E a \in BOOLEAN : schema = [DefaultSchema EXCEPT !.audit_table = a]
    /\ history = <<>>
    /\ audit = <<>>
    /\ notifications = <<>>
    /\ writes = <<>>
    /\ sweep = IdleSweep
    /\ cr = [h \in Handlers |-> IdleCreated]
    /\ events = 0
    /\ pd = IdlePredict
    /\ visits = <<>>
    /\ vprocs = <<>>
    /\ cp = IdleCompleted

SweepNext ==
    \/ Advance
    \/ ExternalStatusChange
    \/ SweepRead
    \/ \E update_ok, audit_ok \in BOOLEAN : SweepRow(update_ok, audit_ok)
    \/ SweepDone

\* the monitor sweep on its timer, with the clock and the other writers
Spec == SweepInit /\ [][SweepNext]_vars

----------------------------------------------------------------------------
(* AppointmentCreated events over a table of overlapping bookings *)

Str_scaling == <<"s","c","a","l","i","n","g">>

\* the appointment the event is about: doctor 21, 10:30 today, a scaling
\* (45 min, so 10:30-11:15) or no type (consultation, 20 min), in room 5 or
\* without a room
ConflictRows1 ==
    {Row(1, 11, 21, ty, "SCHEDULED", 1, 10 * 60 + 30, NULL, NoDT, room, NULL) :
        ty \in {Str_scaling, <<>>}, room \in {NULL, 5}}

\* where an existing booking starts: 10:00 as date + time, 10:00 as a combined
\* timestamp, 11:15 (touching the end of a 45 min appointment), or nowhere
ConflictStarts ==
    {<<10 * 60, NoDT>>, <<NULL, DT(1, 10 * 60)>>, <<11 * 60 + 15, NoDT>>, <<NULL, NoDT>>}

\* an existing booking of doctor 21 or 22 in room 5 or 6, with or without an
\* explicit end time (11:00) and a predicted duration (60 min); with neither, one
\* from 10:00 ends at 10:30 and touches the start of appointment 1
ConflictRows2 ==
    {Row(2, 12, d, <<>>, st, 1, w[1], te, w[2], room, pred) :
        d \in {21, 22}, st \in Statuses, w \in ConflictStarts,
        te \in {NULL, 11 * 60}, pred \in {NULL, 60}, room \in {5, 6}}

\* a third booking of doctor 21 in room 5, 10:45-11:30
ConflictRow3 == Row(3, 13, 21, <<>>, "SCHEDULED", 1, 10 * 60 + 45, 11 * 60 + 30, NoDT, 5, NULL)

ConflictTables ==
    {(1 :> r1) @@ (2 :> r2) : r1 \in ConflictRows1, r2 \in ConflictRows2}
    \cup {(1 :> r1) @@ (2 :> r2) @@ (3 :> ConflictRow3) :
             r1 \in ConflictRows1,
             r2 \in {r \in ConflictRows2 : r.scheduled_end_time = 11 * 60 /\ r.predicted_duration_min = NULL}}

\* the room column the appointments table has, if any, and whether it has the
\* predicted-duration column
ConflictSchemas ==
    {[DefaultSchema EXCEPT !.room_col = rc, !.pred_col = pc] :
        rc \in {"operatory_id", "operatory_room_id", "none"}, pc \in BOOLEAN}

\* the event: the appointment id, and the room under either payload name
ConflictPayloads ==
    {Payload(1, NULL, NULL, <<>>, w[1], w[2], NoDT, NULL, NULL) :
        w \in {<<NULL, NULL>>, <<5, NULL>>, <<NULL, 5>>}}

ConflictInit ==
    /\ now = At(1, 8, 0)
    /\ appts \in ConflictTables
    /\ schema \in ConflictSchemas
    /\ history = <<>>
    /\ audit = <<>>
    /\ notifications = <<>>
    /\ writes = <<>>
    /\ sweep = IdleSweep
    /\ cr = [h \in Handlers |-> IdleCreated]
    /\ events = 0
    /\ pd = IdlePredict
    /\ visits = <<>>
    /\ vprocs = <<>>
    /\ cp = IdleCompleted

ConflictNext ==
    \/ \E p \in ConflictPayloads : AllIdle /\ CreatedBegin(1, p)
    \/ CreatedFetch(1, TRUE)
    \/ CreatedPredict(1, NoFaults)
    \/ CreatedUpdate(1, TRUE)
    \/ \E ok \in BOOLEAN : CreatedDetect(1, ok)
    \/ CreatedAudit(1, TRUE)
    \/ CreatedNotify(1)
    \/ CreatedReturn(1)

\* AppointmentCreated events handled one at a time over a working store
SpecConflict == ConflictInit /\ [][ConflictNext]_vars

----------------------------------------------------------------------------
(* Calls of the duration predictor over every small history *)

Str_filling == <<"f","i","l","l","i","n","g">>
Str_root_canal == <<" ","r","o","o","t"," ","c","a","n","a","l"," ">>
Str_checkup == <<"C","h","e","c","k","u","p">>
Str_x_ray == <<"x","-","r","a","y">>

\* the procedure types handed to the predictor
RawTypes == {Str_filling, Str_root_canal, Str_checkup, Str_x_ray, <<>>, <<" ">>}

EmptyBag == [v \in SampleValues |-> 0]
BagOf(v, n) == [EmptyBag EXCEPT ![v] = n]

\* visit_procedures may be missing, or have its code under either column
\* name, or under neither
PredictSchemas ==
    {[DefaultSchema EXCEPT !.vp_table = w[1], !.vp_col = w[2]] :
        w \in {<<TRUE, "procedure_code">>, <<TRUE, "procedure_type">>,
               <<TRUE, "none">>, <<FALSE, "none">>}}

\* rows exist only in a table that has a code column
Readable(sch) == sch.vp_table /\ sch.vp_col # "none"

PredictInit ==
    /\ now = At(1, 8, 0)
    /\ appts = <<>>
    /\ schema \in PredictSchemas
    /\ \E b \in SampleBags :
          history = IF Readable(schema)
                    THEN (FILLING :> b) @@ (CHECKUP :> BagOf(30, MIN_SAMPLES))
                    ELSE (FILLING :> EmptyBag)
    /\ audit = <<>>
    /\ notifications = <<>>
    /\ writes = <<>>
    /\ sweep = IdleSweep
    /\ cr = [h \in Handlers |-> IdleCreated]
    /\ events = 0
    /\ pd = IdlePredict
    /\ visits = <<>>
    /\ vprocs = <<>>
    /\ cp = IdleCompleted

PredictNext ==
    \/ \E ty \in RawTypes, f \in Faults : PredictCall(ty, f)
    \/ PredictReturn

\* _predict_duration_minutes called on any type over any history, the store
\* failing or not
SpecPredict == PredictInit /\ [][PredictNext]_vars

----------------------------------------------------------------------------
(* Both handlers over a store that may reject any access *)

FaultsRows ==
    {Row(1, 11, 21, ty, "SCHEDULED", 1, 10 * 60 + 30, NULL, NoDT, NULL, NULL) :
        ty \in {Str_filling, <<>>}}

\* no samples, four, five of 500 minutes, or 20, 25, 20, 30, 25
FaultsBags ==
    {EmptyBag, BagOf(25, MIN_SAMPLES - 1), BagOf(500, MIN_SAMPLES),
     [EmptyBag EXCEPT ![20] = 2, ![25] = 2, ![30] = 1]}

FaultsInit ==
    /\ now = At(1, 8, 0)
    /\ \E r \in FaultsRows : appts = (1 :> r)
    /\ schema \in PredictSchemas
    /\ \E b \in FaultsBags :
          history = IF Readable(schema) THEN (FILLING :> b) ELSE (FILLING :> EmptyBag)
    /\ audit = <<>>
    /\ notifications = <<>>
    /\ writes = <<>>
    /\ sweep = IdleSweep
    /\ cr = [h \in Handlers |-> IdleCreated]
    /\ events = 0
    /\ pd = IdlePredict
    /\ visits = <<>>
    /\ vprocs = <<>>
    /\ cp = IdleCompleted

FaultsNext ==
    \/ AllIdle /\ CreatedBegin(1, Payload(1, NULL, NULL, <<>>, NULL, NULL, NoDT, NULL, NULL))
    \/ \E ok \in BOOLEAN : CreatedFetch(1, ok)
    \/ \E f \in Faults : CreatedPredict(1, f)
    \/ \E ok \in BOOLEAN : CreatedUpdate(1, ok)
    \/ \E ok \in BOOLEAN : CreatedDetect(1, ok)
    \/ \E ok \in BOOLEAN : CreatedAudit(1, ok)
    \/ CreatedNotify(1)
    \/ CreatedReturn(1)
    \/ CompletedBegin(CompletedPayload(1, NULL))
    \/ \E ok \in BOOLEAN : CompletedFetch(ok)
    \/ \E ok \in BOOLEAN : CompletedVisit(ok)
    \/ \E f \in Faults, ok \in BOOLEAN : CompletedProcedure(f, ok)
    \/ \E ok \in BOOLEAN : CompletedAudit(ok)
    \/ CompletedNotify
    \/ CompletedReturn

\* AppointmentCreated and AppointmentCompleted events, one at a time, every
\* store access failing or not
SpecFaults == FaultsInit /\ [][FaultsNext]_vars

----------------------------------------------------------------------------
(* The four event types of AppointmentAgent.handle, one event at a time *)

\* lines 58-60: AppointmentAutoScheduleRequested is accepted and ignored
AutoScheduleRequested ==
    /\ AllIdle
    /\ sweep.pc = "idle"
    /\ events < MaxEvents
    /\ events' = events + 1
    /\ UNCHANGED <<now, appts, schema, history, audit, notifications, writes, sweep, cr, pd,
                   visits, vprocs, cp>>

\* where appointment 1 starts: 11:10 today (its 2 h reminder falls on 09:10),
\* 09:45 tomorrow as a combined timestamp (its 24 h reminder falls on 09:45
\* today), or nowhere
EventsStarts == {<<1, 11 * 60 + 10, NoDT>>, <<2, NULL, DT(2, 9 * 60 + 45)>>, <<1, NULL, NoDT>>}

\* appointment 1, a consultation, with or without patient and doctor
EventsRows1 ==
    {Row(1, p, d, <<>>, "SCHEDULED", w[1], w[2], NULL, w[3], NULL, NULL) :
        p \in {NULL, 11}, d \in {NULL, 21}, w \in EventsStarts}

\* appointment 2 of doctor 21, today 09:30-11:20
EventsRow2 == Row(2, 12, 21, <<>>, "SCHEDULED", 1, 9 * 60 + 30, 11 * 60 + 20, NoDT, NULL, NULL)

\* the store as contracted, without the predicted-duration column, without the
\* end-time column, with visit_procedures.procedure_type, without audit table
EventsSchemas ==
    {DefaultSchema, [DefaultSchema EXCEPT !.pred_col = FALSE],
     [DefaultSchema EXCEPT !.end_col = FALSE],
     [DefaultSchema EXCEPT !.vp_col = "procedure_type"],
     [DefaultSchema EXCEPT !.audit_table = FALSE]}

\* AppointmentCreated without an id, for an id without row (9) and for
\* appointment 1, the payload naming patient, doctor and start or not
EventsPayloads ==
    {Payload(NULL, 11, 21, <<>>, NULL, NULL, DT(2, 9 * 60 + 45), NULL, NULL),
     Payload(9, 11, 21, <<>>, NULL, NULL, DT(2, 9 * 60 + 45), NULL, NULL),
     Payload(1, NULL, NULL, <<>>, NULL, NULL, NoDT, NULL, NULL),
     Payload(1, 11, 21, <<>>, NULL, NULL, NoDT, 1, 11 * 60 + 10)}

\* 10:31 today: appointment 2 is past its no-show threshold
EventsInit ==
    /\ now = At(1, 10, 31)
    /\ \E r1 \in EventsRows1 : appts = (1 :> r1) @@ (2 :> EventsRow2)
    /\ schema \in EventsSchemas
    /\ history = (CONSULTATION :> EmptyBag)
    /\ audit = <<>>
    /\ notifications = <<>>
    /\ writes = <<>>
    /\ sweep = IdleSweep
    /\ cr = [h \in Handlers |-> IdleCreated]
    /\ events = 0
    /\ pd = IdlePredict
    /\ visits = <<>>
    /\ vprocs = <<>>
    /\ cp = IdleCompleted

EventsNext ==
    \/ \E p \in EventsPayloads : AllIdle /\ CreatedBegin(1, p)
    \/ CreatedFetch(1, TRUE)
    \/ CreatedPredict(1, NoFaults)
    \/ CreatedUpdate(1, TRUE)
    \/ CreatedDetect(1, TRUE)
    \/ CreatedAudit(1, TRUE)
    \/ CreatedNotify(1)
    \/ CreatedReturn(1)
    \/ \E id \in {NULL, 1, 9} : CompletedBegin(CompletedPayload(id, NULL))
    \/ CompletedFetch(TRUE)
    \/ CompletedVisit(TRUE)
    \/ CompletedProcedure(NoFaults, TRUE)
    \/ CompletedAudit(TRUE)
    \/ CompletedNotify
    \/ CompletedReturn
    \/ events < MaxEvents /\ SweepRead
    \/ SweepRow(TRUE, TRUE)
    \/ SweepDone
    \/ AutoScheduleRequested

\* the dispatcher hands the agent events of the four types, one at a time, over
\* a store that answers every query
SpecEvents == EventsInit /\ [][EventsNext]_vars

----------------------------------------------------------------------------
(* AppointmentCreated events as the clock passes the reminder instants *)

RemindersInit ==
    /\ now = At(1, 9, 0)
    /\ \E r1 \in EventsRows1 : appts = (1 :> r1) @@ (2 :> EventsRow2)
    /\ schema = DefaultSchema
    /\ history = (CONSULTATION :> EmptyBag)
    /\ audit = <<>>
    /\ notifications = <<>>
    /\ writes = <<>>
    /\ sweep = IdleSweep
    /\ cr = [h \in Handlers |-> IdleCreated]
    /\ events = 0
    /\ pd = IdlePredict
    /\ visits = <<>>
    /\ vprocs = <<>>
    /\ cp = IdleCompleted

RemindersNext ==
    \/ Advance
    \/ \E p \in {q \in EventsPayloads : q.appointmentId = 1} : AllIdle /\ CreatedBegin(1, p)
    \/ CreatedFetch(1, TRUE)
    \/ CreatedPredict(1, NoFaults)
    \/ CreatedUpdate(1, TRUE)
    \/ CreatedDetect(1, TRUE)
    \/ CreatedAudit(1, TRUE)
    \/ CreatedNotify(1)
    \/ CreatedReturn(1)

\* AppointmentCreated events for appointment 1 at 09:00, 09:10, 09:11, 09:45,
\* 09:46, 09:50 or 10:31
SpecReminders == RemindersInit /\ [][RemindersNext]_vars

----------------------------------------------------------------------------
(* Two AppointmentCreated events handled concurrently *)

\* appointment 1 of doctor 21: 10:00 today, a consultation (20 min) or a root
\* canal (90 min), booked without end time or until 11:00
RaceRows1 ==
    {Row(1, 11, 21, ty, "SCHEDULED", 1, 10 * 60, te, NoDT, NULL, NULL) :
        ty \in {<<>>, Str_root_canal}, te \in {NULL, 11 * 60}}

\* appointment 2 of doctor 21, a consultation: from 10:20, 10:25, 10:45 or
\* 11:30, booked without end time or until 11:45
RaceRows2 ==
    {Row(2, 12, 21, <<>>, "SCHEDULED", 1, t, te, NoDT, NULL, NULL) :
        t \in {10 * 60 + 20, 10 * 60 + 25, 10 * 60 + 45, 11 * 60 + 30},
        te \in {NULL, 11 * 60 + 45}}

\* the event of an appointment names its id only
RacePayload(id) == Payload(id, NULL, NULL, <<>>, NULL, NULL, NoDT, NULL, NULL)

RaceInit ==
    /\ now = At(1, 8, 0)
    /\ \E r1 \in RaceRows1, r2 \in RaceRows2 : appts = (1 :> r1) @@ (2 :> r2)
    /\ schema = DefaultSchema
    /\ history = (CONSULTATION :> EmptyBag)
    /\ audit = <<>>
    /\ notifications = <<>>
    /\ writes = <<>>
    /\ sweep = IdleSweep
    /\ cr = [h \in Handlers |-> IdleCreated]
    /\ events = 0
    /\ pd = IdlePredict
    /\ visits = <<>>
    /\ vprocs = <<>>
    /\ cp = IdleCompleted

\* the event of appointment 2 arrives while the one of appointment 1 is being
\* handled; from then on the steps of the two handlers interleave freely
RaceNext ==
    \/ cr[2].pc = "idle" /\ CreatedBegin(1, RacePayload(1))
    \/ cr[1].pc \notin {"idle", "done"} /\ CreatedBegin(2, RacePayload(2))
    \/ \E h \in Handlers :
          \/ CreatedFetch(h, TRUE)
          \/ CreatedPredict(h, NoFaults)
          \/ CreatedUpdate(h, TRUE)
          \/ CreatedDetect(h, TRUE)
          \/ CreatedAudit(h, TRUE)
          \/ CreatedNotify(h)
          \/ CreatedReturn(h)

\* two workers, each with its own connection, no lock across events
SpecRace == RaceInit /\ [][RaceNext]_vars

----------------------------------------------------------------------------
(* AppointmentCreated events, one at a time, as the appointments are booked *)

\* appointment 2 with its start stored as a combined timestamp, 10:10 today, or
\* with another doctor
BookingRows2 ==
    RaceRows2
    \cup {Row(2, 12, 21, <<>>, "SCHEDULED", 1, NULL, NULL, DT(1, 10 * 60 + 10), NULL, NULL),
          Row(2, 12, 22, <<>>, "SCHEDULED", 1, 10 * 60 + 10, NULL, NoDT, NULL, NULL)}

\* appointment 1, also as a root canal booked for a quarter of an hour only
BookingRows1 ==
    RaceRows1
    \cup {Row(1, 11, 21, Str_root_canal, "SCHEDULED", 1, 10 * 60, 10 * 60 + 15, NoDT, NULL, NULL)}

\* the booking flow inserts the row of an appointment
BookRow ==
    /\ \E r \in BookingRows1 \cup BookingRows2 :
          /\ r.id \notin DOMAIN appts
          /\ appts' = (r.id :> r) @@ appts
    /\ UNCHANGED <<now, schema, history, audit, notifications, writes, sweep, cr, events, pd,
                   visits, vprocs, cp>>

BookingInit ==
    /\ now = At(1, 8, 0)
    /\ appts = <<>>
    /\ schema = DefaultSchema
    /\ history = (CONSULTATION :> EmptyBag)
    /\ audit = <<>>
    /\ notifications = <<>>
    /\ writes = <<>>
    /\ sweep = IdleSweep
    /\ cr = [h \in Handlers |-> IdleCreated]
    /\ events = 0
    /\ pd = IdlePredict
    /\ visits = <<>>
    /\ vprocs = <<>>
    /\ cp = IdleCompleted

\* the event of an appointment follows the insertion of its row
BookingNext ==
    \/ BookRow
    \/ \E id \in DOMAIN appts : AllIdle /\ CreatedBegin(1, RacePayload(id))
    \/ CreatedFetch(1, TRUE)
    \/ CreatedPredict(1, NoFaults)
    \/ CreatedUpdate(1, TRUE)
    \/ CreatedDetect(1, TRUE)
    \/ CreatedAudit(1, TRUE)
    \/ CreatedNotify(1)
    \/ CreatedReturn(1)

\* appointments are booked at any moment; their events are handled one at a time
SpecBooking == BookingInit /\ [][BookingNext]_vars

----------------------------------------------------------------------------
(* Properties of the monitor sweep *)

\* how many entries of a log satisfy a test
Count(log, Test(_)) == Cardinality({i \in DOMAIN log : Test(log[i])})

\* the notifications one sweep pass requested about one appointment
SweepNotifs(id, tick, role, notif_type) ==
    LET Is(n) == /\ n.related_id = id /\ n.tick = tick
                 /\ n.role = role /\ n.notif_type = notif_type
    IN  Count(notifications, Is)

SweepStatusWrites(id, tick) ==
    LET Is(w) == w.id = id /\ w.tick = tick /\ w.column = "status"
    IN  Count(writes, Is)

SweepAudits(id, tick) ==
    LET Is(a) == a.appointment_id = id /\ a.tick = tick /\ a.action = "NO_SHOW"
    IN  Count(audit, Is)

\* the rows the current (or last) pass has already been through
Processed == 1..(sweep.i - 1)

\* a row the sweep acts on: not terminal when read, start resolvable
Eligible(r) == r.status \notin TerminalStatuses /\ _fetch_appt_datetime(r) # NULL

NothingFor(id, tick) ==
    /\ SweepStatusWrites(id, tick) = 0
    /\ SweepAudits(id, tick) = 0
    /\ \A role \in {"patient", "doctor"}, ty \in {"APPOINTMENT_NO_SHOW", "APPOINTMENT_DELAY"} :
          SweepNotifs(id, tick, role, ty) = 0

DelayOnlyFor(id, tick, alerts) ==
    /\ SweepStatusWrites(id, tick) = 0
    /\ SweepAudits(id, tick) = 0
    /\ SweepNotifs(id, tick, "doctor", "APPOINTMENT_DELAY") = alerts
    /\ SweepNotifs(id, tick, "doctor", "APPOINTMENT_NO_SHOW") = 0
    /\ SweepNotifs(id, tick, "patient", "APPOINTMENT_DELAY") = 0
    /\ SweepNotifs(id, tick, "patient", "APPOINTMENT_NO_SHOW") = 0

\* C1 as claimed: in one monitor tick every eligible row past start + 45 min gets
\* status NO_SHOW, a NO_SHOW audit entry, one patient and one doctor no-show
\* notification; one past start + 10 min gets exactly one running-late alert to
\* the doctor and nothing else; any other row gets nothing.
C1_TickContract ==
    \A k \in Processed :
        LET r == sweep.rows[k]
            start_dt == _fetch_appt_datetime(r)
        IN  Eligible(r) =>
              IF sweep.now > start_dt + GRACE_MIN_NO_SHOW
              THEN /\ appts[r.id].status = "NO_SHOW"
                   /\ SweepStatusWrites(r.id, sweep.tick) = 1
                   /\ SweepAudits(r.id, sweep.tick) = 1
                   /\ SweepNotifs(r.id, sweep.tick, "patient", "APPOINTMENT_NO_SHOW") = 1
                   /\ SweepNotifs(r.id, sweep.tick, "doctor", "APPOINTMENT_NO_SHOW") = 1
              ELSE IF sweep.now > start_dt + GRACE_MIN_DELAY
              THEN DelayOnlyFor(r.id, sweep.tick, 1)
              ELSE NothingFor(r.id, sweep.tick)

One(b) == IF b THEN 1 ELSE 0

\* C1 amended: past start + 45 min the NO_SHOW update is issued; the status
\* becomes NO_SHOW only if the store accepts it, and the audit entry is written
\* only if moreover the audit table exists and its insert succeeds; in either
\* case one missed-appointment notification goes to the patient if the row
\* names one and one no-show alert to the doctor if it names one, and no
\* running-late alert.  Past start + 10 min only: no write, no audit entry, one
\* running-late alert to the doctor if the row names one, nothing to the
\* patient.  Otherwise nothing.
C1_TickContractAmended ==
    \A k \in Processed :
        LET r == sweep.rows[k]
            start_dt == _fetch_appt_datetime(r)
            o == sweep.outcome[k]
        IN  Eligible(r) =>
              IF sweep.now > start_dt + GRACE_MIN_NO_SHOW
              THEN /\ o.update \in {"ok", "rejected"}
                   /\ o.update = "ok" => appts[r.id].status = "NO_SHOW"
                   /\ SweepStatusWrites(r.id, sweep.tick) = One(o.update = "ok")
                   /\ SweepAudits(r.id, sweep.tick) = One(o.audit = "ok")
                   /\ o.audit = "ok" => o.update = "ok" /\ schema.audit_table
                   /\ SweepNotifs(r.id, sweep.tick, "patient", "APPOINTMENT_NO_SHOW")
                        = One(r.patient_id # NULL)
                   /\ SweepNotifs(r.id, sweep.tick, "doctor", "APPOINTMENT_NO_SHOW")
                        = One(r.doctor_id # NULL)
                   /\ SweepNotifs(r.id, sweep.tick, "doctor", "APPOINTMENT_DELAY") = 0
                   /\ SweepNotifs(r.id, sweep.tick, "patient", "APPOINTMENT_DELAY") = 0
              ELSE IF sweep.now > start_dt + GRACE_MIN_DELAY
              THEN DelayOnlyFor(r.id, sweep.tick, One(r.doctor_id # NULL))
              ELSE NothingFor(r.id, sweep.tick)

\* C1 witness: one pass that marked the 09:00 appointment NO_SHOW, with audit
\* entry and both notifications, and alerted the doctor of the late 09:35 one
C1_Witness ==
    /\ sweep.i = 3
    /\ sweep.outcome[1].update = "ok"
    /\ appts[1].status = "NO_SHOW"
    /\ SweepAudits(1, sweep.tick) = 1
    /\ SweepNotifs(1, sweep.tick, "patient", "APPOINTMENT_NO_SHOW") = 1
    /\ SweepNotifs(1, sweep.tick, "doctor", "APPOINTMENT_NO_SHOW") = 1
    /\ SweepNotifs(2, sweep.tick, "doctor", "APPOINTMENT_DELAY") = 1
    /\ SweepStatusWrites(2, sweep.tick) = 0

\* C2 as claimed: the sweep never writes a status to, and never requests a
\* notification about, an appointment whose stored status is already
\* CANCELLED, COMPLETED or NO_SHOW, whatever other writers do meanwhile.
C2_Monotonic ==
    /\ \A i \in DOMAIN writes :
          writes[i].tick > 0 => writes[i].old_status \notin TerminalStatuses
    /\ \A i \in DOMAIN notifications :
          notifications[i].tick > 0 => notifications[i].db_status \notin TerminalStatuses

\* the passes that acted on the no-show of an appointment (a status write, an
\* audit entry or a no-show notification)
NoShowTicks(id) ==
    {writes[i].tick : i \in {j \in DOMAIN writes : writes[j].id = id /\ writes[j].tick > 0}}
    \cup {audit[i].tick : i \in {j \in DOMAIN audit :
                audit[j].appointment_id = id /\ audit[j].action = "NO_SHOW"}}
    \cup {notifications[i].tick : i \in {j \in DOMAIN notifications :
                /\ notifications[j].related_id = id
                /\ notifications[j].notif_type = "APPOINTMENT_NO_SHOW"}}

\* C3 as claimed: once a pass has processed an appointment past the no-show
\* threshold, no later pass writes its status, audits it or notifies about it
\* again: at most one pass ever acts on the no-show of an appointment.
C3_NoShowOnce ==
    \A id \in DOMAIN appts : Cardinality(NoShowTicks(id)) <= 1

\* C4 as claimed: over any sequence of ticks the doctor gets at most one
\* running-late (APPOINTMENT_DELAY) notification per appointment.
C4_DelayOneShot ==
    \A id \in DOMAIN appts :
        LET IsDelay(n) == n.related_id = id /\ n.notif_type = "APPOINTMENT_DELAY"
        IN  Count(notifications, IsDelay) <= 1

\* the 09:00 appointment, read as active with patient and doctor, has been
\* processed by the current pass, which is evaluated at h:m
NineOClockProcessedAt(h, m) ==
    /\ sweep.now = At(1, h, m)
    /\ \E k \in Processed :
          LET r == sweep.rows[k]
          IN  /\ r.id = 1
              /\ Eligible(r)
              /\ _fetch_appt_datetime(r) = At(1, 9, 0)
              /\ r.patient_id # NULL /\ r.doctor_id # NULL
              /\ sweep.outcome[k].update # "rejected"

NoShowFor(id, tick) ==
    /\ SweepStatusWrites(id, tick) = 1
    /\ appts[id].status = "NO_SHOW"
    /\ SweepNotifs(id, tick, "patient", "APPOINTMENT_NO_SHOW") = 1
    /\ SweepNotifs(id, tick, "doctor", "APPOINTMENT_NO_SHOW") = 1
    /\ SweepNotifs(id, tick, "doctor", "APPOINTMENT_DELAY") = 0
    /\ SweepNotifs(id, tick, "patient", "APPOINTMENT_DELAY") = 0

\* C5 as claimed: for the active 09:00 appointment a tick at 09:50 gives a delay
\* alert to the doctor only, a tick at 09:46 gives no action, and a tick at
\* 10:31 gives the NO_SHOW transition with both notifications.
C5_Example ==
    /\ NineOClockProcessedAt(9, 50) => DelayOnlyFor(1, sweep.tick, 1)
    /\ NineOClockProcessedAt(9, 46) => NothingFor(1, sweep.tick)
    /\ NineOClockProcessedAt(10, 31) => NoShowFor(1, sweep.tick)

\* C5 amended: for the active 09:00 appointment (patient and doctor known, the
\* store accepting the update) a tick at 09:46, 09:50 or 10:31 gives the
\* NO_SHOW transition with both notifications and no delay alert; a tick at
\* 09:11 or 09:45 gives a delay alert to the doctor only; a tick at 09:00 or
\* 09:10 gives no action.
C5_ExampleAmended ==
    /\ \A hm \in {<<9, 46>>, <<9, 50>>, <<10, 31>>} :
          NineOClockProcessedAt(hm[1], hm[2]) => NoShowFor(1, sweep.tick)
    /\ \A hm \in {<<9, 11>>, <<9, 45>>} :
          NineOClockProcessedAt(hm[1], hm[2]) => DelayOnlyFor(1, sweep.tick, 1)
    /\ \A hm \in {<<9, 0>>, <<9, 10>>} :
          NineOClockProcessedAt(hm[1], hm[2]) => NothingFor(1, sweep.tick)

\* C5 witness: the 09:00 appointment went through a tick at 09:45 with a delay
\* alert only and then through a tick at 09:50 that marked it NO_SHOW
C5_Witness ==
    /\ NineOClockProcessedAt(9, 50)
    /\ NoShowFor(1, sweep.tick)
    /\ sweep.tick = 2
    /\ DelayOnlyFor(1, 1, 1)

----------------------------------------------------------------------------
(* Properties of conflict detection *)

\* the handler has just run conflict detection, which returned
JustDetected == cr[1].pc = "audit" /\ cr[1].detected

\* the interval of a booking as the contract words it: the start is the
\* combined timestamp if there is one, else date + start time; the end is the
\* explicit end time (on the scheduled date) if there is one, else the start
\* plus the predicted duration, 30 minutes when that is unset
BookedStart(r) ==
    IF r.appointment_datetime # NoDT
    THEN r.appointment_datetime.d * 1440 + r.appointment_datetime.t
    ELSE IF r.scheduled_date # NULL /\ r.scheduled_time # NULL
    THEN r.scheduled_date * 1440 + r.scheduled_time
    ELSE NULL

BookedEnd(r) ==
    IF r.scheduled_date # NULL /\ r.scheduled_end_time # NULL
    THEN r.scheduled_date * 1440 + r.scheduled_end_time
    ELSE IF r.predicted_duration_min \notin {NULL, 0}
    THEN BookedStart(r) + r.predicted_duration_min
    ELSE BookedStart(r) + 30

Active(r) == r.status \notin {"CANCELLED", "COMPLETED", "NO_SHOW"}

\* the booking intersects [start, end) of the handler's appointment
Intersects(r, c) ==
    /\ BookedStart(r) # NULL
    /\ c.start_dt < BookedEnd(r)
    /\ BookedStart(r) < c.end_dt

Touches(r, c) ==
    /\ BookedStart(r) # NULL
    /\ (BookedEnd(r) = c.start_dt \/ BookedStart(r) = c.end_dt)

Reported(c, type, id) ==
    Cardinality({i \in DOMAIN c.conflicts :
                    c.conflicts[i].type = type /\ c.conflicts[i].with_appointment_id = id})

\* C6: every conflict returned names another appointment that shares the
\* doctor (DOCTOR) or the room (OPERATORY, the ROOM kind), is not CANCELLED,
\* COMPLETED or NO_SHOW, and whose interval [s, e) has start < e and s < end;
\* one that only touches an endpoint is not reported.
C6_ConflictSoundness ==
    JustDetected =>
        LET c == cr[1]
        IN  /\ \A i \in DOMAIN c.conflicts :
                  LET k == c.conflicts[i]
                      r == appts[k.with_appointment_id]
                  IN  /\ k.with_appointment_id # c.appt_id
                      /\ k.type \in {"DOCTOR", "OPERATORY"}
                      /\ k.type = "DOCTOR" => r.doctor_id = c.doctor_id
                      /\ k.type = "OPERATORY" => r.room = c.operatory_room_id
                      /\ Active(r)
                      /\ Intersects(r, c)
                      /\ k.at = BookedStart(r)
                      /\ k.status = r.status
            /\ \A id \in DOMAIN appts :
                  Touches(appts[id], c) /\ ~Intersects(appts[id], c) =>
                      Reported(c, "DOCTOR", id) = 0 /\ Reported(c, "OPERATORY", id) = 0

\* C6 witness: detection reported the 10:45-11:30 booking of the doctor and
\* left out an active booking of the same doctor that starts at 11:15, where
\* the 10:30-11:15 appointment ends
C6_Witness ==
    /\ JustDetected
    /\ cr[1].end_dt = At(1, 11, 15)
    /\ Reported(cr[1], "DOCTOR", 3) = 1
    /\ Active(appts[2]) /\ appts[2].doctor_id = cr[1].doctor_id
    /\ BookedStart(appts[2]) = cr[1].end_dt
    /\ Reported(cr[1], "DOCTOR", 2) = 0

\* C7: when detection returns, it reports exactly one DOCTOR conflict for every
\* other active appointment of the same doctor whose start is derivable and
\* whose interval overlaps [start, end); for an active 10:00-11:00 booking and a
\* new 10:30-11:15 appointment of the same doctor that is one DOCTOR conflict,
\* and none if the booking is CANCELLED.
C7_ConflictCompleteness ==
    JustDetected =>
        LET c == cr[1]
        IN  /\ \A id \in DOMAIN appts \ {c.appt_id} :
                  LET r == appts[id]
                  IN  r.doctor_id = c.doctor_id /\ Active(r) /\ Intersects(r, c)
                        => Reported(c, "DOCTOR", id) = 1
            /\ ( /\ c.start_dt = At(1, 10, 30) /\ c.end_dt = At(1, 11, 15)
                 /\ appts[2].doctor_id = c.doctor_id
                 /\ BookedStart(appts[2]) = At(1, 10, 0) /\ BookedEnd(appts[2]) = At(1, 11, 0)
                 /\ DOMAIN appts = {1, 2} )
                => /\ appts[2].status = "SCHEDULED"
                      => /\ Reported(c, "DOCTOR", 2) = 1
                         /\ Cardinality({i \in DOMAIN c.conflicts :
                                            c.conflicts[i].type = "DOCTOR"}) = 1
                   /\ appts[2].status = "CANCELLED" => c.conflicts = <<>>

\* C7 witness: the 10:00-11:00 booking (end from the predicted 60 minutes) and
\* the 10:45-11:30 one are both reported once for the 10:30 appointment
C7_Witness ==
    /\ JustDetected
    /\ cr[1].start_dt = At(1, 10, 30)
    /\ 3 \in DOMAIN appts
    /\ Reported(cr[1], "DOCTOR", 2) = 1
    /\ Reported(cr[1], "DOCTOR", 3) = 1
    /\ appts[2].appointment_datetime # NoDT

\* C8 as claimed: when the handler has resolved a room and the appointments
\* table has the operatory_id column, detection reports a room conflict for
\* every other active appointment in that room whose interval overlaps.
C8_RoomConflicts ==
    (JustDetected /\ cr[1].operatory_room_id # NULL /\ schema.room_col = "operatory_id") =>
        \A id \in DOMAIN appts \ {cr[1].appt_id} :
            LET r == appts[id]
            IN  r.room = cr[1].operatory_room_id /\ Active(r) /\ Intersects(r, cr[1])
                  => Reported(cr[1], "OPERATORY", id) = 1

----------------------------------------------------------------------------
(* Properties of the duration predictor *)

\* the normalized form of the types the model hands to the predictor
NormalizedOf(ty) ==
    CASE ty = Str_filling -> <<"F","I","L","L","I","N","G">>
      [] ty = Str_root_canal -> <<"R","O","O","T","_","C","A","N","A","L">>
      [] ty = Str_checkup -> <<"C","H","E","C","K","U","P">>
      [] ty = Str_x_ray -> <<"X","_","R","A","Y">>
      [] OTHER -> <<"C","O","N","S","U","L","T","A","T","I","O","N">>

\* the static table for these types, 30 for the unlisted X_RAY
StaticDefault(ty) ==
    CASE ty = Str_filling -> 60
      [] ty = Str_root_canal -> 90
      [] ty = Str_checkup -> 20
      [] ty = Str_x_ray -> 30
      [] OTHER -> 20

\* the samples of a type: how many rows hold each positive duration
SamplesOf(ty) ==
    IF NormalizedOf(ty) \in DOMAIN history THEN history[NormalizedOf(ty)] ELSE EmptyBag

RECURSIVE SumUpTo(_, _, _)
SumUpTo(b, S, x) ==
    IF S = {} THEN 0
    ELSE LET v == CHOOSE u \in S : TRUE
         IN  (IF v > 0 /\ v <= x THEN b[v] ELSE 0) + SumUpTo(b, S \ {v}, x)

SampleCount(b) == SumUpTo(b, SampleValues, 500)

\* the k-th smallest positive sample
KthSample(b, k) ==
    CHOOSE v \in SampleValues : v > 0 /\ SumUpTo(b, SampleValues, v) >= k
                                       /\ SumUpTo(b, SampleValues, v) - b[v] < k

\* the contract: with at least 5 samples the median (for an even count the
\* floor of the mean of the two middle ones) clamped to [10, 240], else the
\* static default
Contracted(ty) ==
    LET b == SamplesOf(ty)
        n == SampleCount(b)
        med == IF n % 2 = 1 THEN KthSample(b, (n + 1) \div 2)
               ELSE (KthSample(b, n \div 2) + KthSample(b, n \div 2 + 1)) \div 2
    IN  IF n >= 5
        THEN (IF med < 10 THEN 10 ELSE IF med > 240 THEN 240 ELSE med)
        ELSE StaticDefault(ty)

\* C9: the prediction is the clamped median of the positive samples of the
\* normalized type if there are at least 5, else the static default (30 if
\* unlisted); it is always within [10, 240]; 20, 25, 20, 30, 25 for FILLING give
\* 25, four samples give 60, five of 1 give 10 and five of 500 give 240.
C9_Prediction ==
    pd.pc = "done" =>
        /\ pd.result >= 10 /\ pd.result <= 240
        /\ pd.faults = NoFaults => pd.result = Contracted(pd.procedure_type)
        /\ (pd.faults = NoFaults /\ pd.procedure_type = Str_filling /\ Readable(schema)) =>
              /\ history[FILLING] = [EmptyBag EXCEPT ![20] = 2, ![25] = 2, ![30] = 1]
                    => pd.result = 25
              /\ SampleCount(history[FILLING]) = 4 => pd.result = 60
              /\ history[FILLING] = BagOf(1, 5) => pd.result = 10
              /\ history[FILLING] = BagOf(500, 5) => pd.result = 240

\* C9 witness: six samples 1, 20, 25, 30, 500, 500 and a row without duration:
\* the median of an even count, (25 + 30) div 2 = 27
C9_Witness ==
    /\ pd.pc = "done"
    /\ pd.faults = NoFaults
    /\ pd.procedure_type = Str_filling
    /\ Readable(schema)
    /\ history[FILLING] = [EmptyBag EXCEPT ![1] = 1, ![20] = 1, ![25] = 1, ![30] = 1, ![500] = 2]
    /\ pd.result = 27

\* the predictions the handlers have just made: type, failures inside, result
Predictions ==
    {<<cr[h].row.type, cr[h].faults, cr[h].dur_min>> : h \in {g \in Handlers : cr[g].pc = "update"}}
    \cup (IF "predicted" \in DOMAIN cp
          THEN {<<appts[cp.appt_id].type, cp.faults, cp.predicted>>} ELSE {})

PredictRaised ==
    \/ \E h \in Handlers : cr[h].pc = "done" /\ cr[h].outcome = "predict_raised"
    \/ cp.pc = "done" /\ cp.outcome = "predict_raised"

\* C10 as claimed: no failure inside the prediction reaches the handlers, and
\* whenever a store access of the prediction fails, or the table or its code
\* column is missing, the result is the static default of the type.
C10_FailureGivesDefault ==
    /\ ~PredictRaised
    /\ \A p \in Predictions :
          (p[2] # NoFaults \/ ~Readable(schema)) => p[3] = StaticDefault(p[1])

\* C10 amended: no failure inside the prediction reaches the handlers, which go
\* on; the result is the static default whenever the table lookup or the
\* durations query fails, the table or its code column is missing, or the
\* column lookup fails and the table has no procedure_type column; if only the
\* column lookup fails and the table has procedure_type, the result is the
\* one without failure (the clamped median of at least 5 samples, else the
\* default).
C10_FailureSwallowed ==
    /\ ~PredictRaised
    /\ \A p \in Predictions :
          IF \/ p[2].tab \/ p[2].qry \/ ~Readable(schema)
             \/ (p[2].col /\ schema.vp_col # "procedure_type")
          THEN p[3] = StaticDefault(p[1])
          ELSE p[3] = Contracted(p[1])

\* C10 witness: with five samples of 500 minutes in the table, the Created
\* handler went on to its audit entry with the default 60 after a failed
\* durations query, and then the Completed handler seeded the visit with 60
\* after a failed table lookup
C10_Witness ==
    /\ history[FILLING] = BagOf(500, 5)
    /\ \E i \in DOMAIN audit :
          audit[i].action = "CREATED" /\ audit[i].meta.predicted_duration_min = 60
    /\ cp.pc = "audit"
    /\ "predicted" \in DOMAIN cp
    /\ cp.faults.tab
    /\ cp.predicted = 60
    /\ \E i \in DOMAIN vprocs : vprocs[i].predicted_duration_min = 60

----------------------------------------------------------------------------
(* Properties of failure handling *)

\* the handler has loaded its appointment row
CreatedLoaded(h) == "row" \in DOMAIN cr[h]
CompletedLoaded == "patient_id" \in DOMAIN cp

\* C11 as claimed: once AppointmentCreated or AppointmentCompleted has loaded
\* its appointment row, no storage failure of a later step leaves the handler:
\* every invocation that loaded its row ends by completing all its steps.
C11_Containment ==
    /\ \A h \in Handlers :
          cr[h].pc = "done" /\ CreatedLoaded(h) => cr[h].outcome = "completed"
    /\ cp.pc = "done" /\ CompletedLoaded => cp.outcome = "completed"

\* row k of the pass was past the no-show threshold when read and was acted on
NoShowApplied(k) ==
    LET r == sweep.rows[k]
        o == sweep.outcome[k]
    IN  /\ o.update \in {"ok", "rejected"}
        /\ o.update = "ok" => appts[r.id].status = "NO_SHOW"
        /\ SweepStatusWrites(r.id, sweep.tick) = One(o.update = "ok")
        /\ SweepNotifs(r.id, sweep.tick, "patient", "APPOINTMENT_NO_SHOW") = One(r.patient_id # NULL)
        /\ SweepNotifs(r.id, sweep.tick, "doctor", "APPOINTMENT_NO_SHOW") = One(r.doctor_id # NULL)

\* C13: when the store rejects the NO_SHOW write of one row, the pass does not
\* end there: it ends only after the last row read, and every row after the
\* rejected one is evaluated and gets its transition and notifications.
C13_SweepIsolation ==
    \A j \in Processed :
        sweep.outcome[j].update = "rejected" =>
            /\ sweep.pc = "idle" => sweep.i = Len(sweep.rows) + 1
            /\ Len(sweep.outcome) = sweep.i - 1
            /\ \A k \in Processed :
                  k > j /\ Eligible(sweep.rows[k]) =>
                     LET r == sweep.rows[k]
                         start_dt == _fetch_appt_datetime(r)
                     IN  IF sweep.now > start_dt + GRACE_MIN_NO_SHOW THEN NoShowApplied(k)
                         ELSE IF sweep.now > start_dt + GRACE_MIN_DELAY
                         THEN DelayOnlyFor(r.id, sweep.tick, One(r.doctor_id # NULL))
                         ELSE NothingFor(r.id, sweep.tick)

\* C13 witness: a pass at 10:31 in which the store rejected the NO_SHOW write
\* of the 09:00 appointment and the 09:35 one was then marked NO_SHOW, with
\* both its notifications, before the pass ended
C13_Witness ==
    /\ sweep.pc = "idle"
    /\ sweep.now = At(1, 10, 31)
    /\ Len(sweep.rows) = 2
    /\ sweep.outcome[1].update = "rejected"
    /\ sweep.outcome[2].update = "ok"
    /\ appts[1].status = "SCHEDULED"
    /\ appts[2].status = "NO_SHOW"
    /\ SweepNotifs(2, sweep.tick, "patient", "APPOINTMENT_NO_SHOW") = 1
    /\ SweepNotifs(2, sweep.tick, "doctor", "APPOINTMENT_NO_SHOW") = 1

----------------------------------------------------------------------------
(* Properties of the order of store writes and notifications *)

\* C15 as claimed: within one monitor tick every store write (NO_SHOW status
\* write, audit entry) happens before any notification of that tick is
\* requested: no step of a pass writes to the store once the pass has
\* requested a notification.
C15_SweepWritesFirst ==
    [][(sweep.pc = "rows" /\ (writes' # writes \/ audit' # audit \/ appts' # appts))
         => \A i \in DOMAIN notifications : notifications[i].tick # sweep.tick]_vars

StoreTables == <<appts, audit, writes, visits, vprocs>>

\* the step is the notification step of a handler
NotifyStep ==
    \/ \E h \in Handlers : cr[h].pc = "notify" /\ cr'[h].pc = "done" /\ cr'[h].outcome = "completed"
    \/ cp.pc = "notify" /\ cp'.pc = "done" /\ cp'.outcome = "completed"

\* C14: in AppointmentCreated and AppointmentCompleted notifications are
\* requested in one final step, after the cursor scope: that step writes
\* nothing to the store, every store write is made by a step before it, the
\* handler only returns after it, and a handler that an exception leaves
\* stops before it, having requested nothing.
C14_NotifyAfterWrites ==
    [][/\ notifications' # notifications => NotifyStep /\ UNCHANGED StoreTables
       /\ StoreTables' # StoreTables =>
             \/ \E h \in Handlers : cr[h].pc \in {"update", "audit"} /\ cr'[h] # cr[h]
             \/ cp.pc \in {"visit", "procedure", "audit"} /\ cp' # cp
       /\ \A h \in Handlers :
             /\ cr[h].pc = "notify" => cr'[h].pc \in {"notify", "done"}
             /\ cr[h].pc = "done" => cr'[h].pc \in {"done", "idle"}
             /\ (cr'[h].pc = "done" /\ cr[h].pc # "done" /\ cr'[h].outcome # "completed")
                   => cr[h].pc \in {"idle", "fetch", "predict", "update", "detect", "audit"}
       /\ cp.pc = "notify" => cp'.pc \in {"notify", "done"}
       /\ cp.pc = "done" => cp'.pc \in {"done", "idle"}
       /\ (cp'.pc = "done" /\ cp.pc # "done" /\ cp'.outcome # "completed")
             => cp.pc \in {"idle", "fetch", "visit", "procedure", "audit"}]_vars

\* C14 witness: an AppointmentCreated event wrote the predicted fields and was
\* then left by an exception, requesting nothing; the AppointmentCompleted
\* event after it inserted visit, seed row and audit entry and then notified
\* the patient
C14_Witness ==
    /\ cp.pc = "done"
    /\ cp.outcome = "completed"
    /\ Len(writes) = 1
    /\ Len(visits) = 1
    /\ Len(vprocs) = 1
    /\ Len(audit) = 1
    /\ audit[1].action = "COMPLETED"
    /\ Len(notifications) = 1
    /\ notifications[1].notif_type = "APPOINTMENT_COMPLETED"

----------------------------------------------------------------------------
(* Properties of the handlers over the four event types *)

StoreAndNotifications == <<appts, audit, notifications, writes, visits, vprocs>>

\* the step ends an invocation that found no appointment id or no row
EndsNotFound ==
    \/ \E h \in Handlers : /\ cr[h].pc \in {"idle", "fetch"}
                           /\ cr'[h].pc = "done"
                           /\ cr'[h].outcome \in {"no_id", "not_found"}
    \/ /\ cp.pc \in {"idle", "fetch"}
       /\ cp'.pc = "done"
       /\ cp'.outcome \in {"no_id", "not_found"}

\* C12: an AppointmentCreated or AppointmentCompleted event without
\* appointment id, or for an id without row, ends before any later step: the
\* steps of such an invocation leave every table and the notifications as
\* they were, so that no predicted-field write, visit, visit procedure, audit
\* entry or notification ever concerns an id that has no appointment row.
C12_NotFoundNoOp ==
    /\ [](/\ \A h \in Handlers :
                cr[h].pc = "done" /\ cr[h].outcome \in {"no_id", "not_found"}
                    => ~CreatedLoaded(h)
          /\ cp.pc = "done" /\ cp.outcome \in {"no_id", "not_found"} => ~CompletedLoaded
          /\ \A i \in DOMAIN audit : audit[i].appointment_id \in DOMAIN appts
          /\ \A i \in DOMAIN notifications : notifications[i].related_id \in DOMAIN appts
          /\ \A i \in DOMAIN writes : writes[i].id \in DOMAIN appts
          /\ \A i \in DOMAIN visits : visits[i].appointment_id \in DOMAIN appts
          /\ \A i \in DOMAIN vprocs : \E j \in DOMAIN visits : visits[j].id = vprocs[i].visit_id)
    /\ [][(\/ EndsNotFound
           \/ \E h \in Handlers : cr[h].pc \in {"idle", "fetch"} /\ cr'[h] # cr[h]
           \/ cp.pc \in {"idle", "fetch"} /\ cp' # cp)
            => UNCHANGED StoreAndNotifications]_vars

\* C12 witness: after an AppointmentCreated event for appointment 1 that left
\* its audit entry, an AppointmentCompleted event for the id 9, which has no
\* row, has returned and nothing was added
C12_Witness ==
    /\ cp.pc = "done"
    /\ cp.outcome = "not_found"
    /\ cp.appt_id = 9
    /\ Len(audit) = 1
    /\ audit[1].action = "CREATED"
    /\ visits = <<>>
    /\ vprocs = <<>>
    /\ \A i \in DOMAIN notifications : notifications[i].notif_type # "APPOINTMENT_COMPLETED"

----------------------------------------------------------------------------
(* Properties of the notifications of AppointmentCreated *)

\* the notifications a step requested
Requested == SubSeq(notifications', Len(notifications) + 1, Len(notifications'))

LeadTimes == {24 * 60, 2 * 60}

\* how many of the requested notifications are reminders to a user in a role
\* scheduled at an instant
Reminders(role, user_id, when) ==
    LET Is(n) == /\ n.notif_type = "APPOINTMENT_REMINDER" /\ n.role = role
                 /\ n.user_id = user_id /\ n.scheduled_at = when
    IN  Count(Requested, Is)

\* C16: when AppointmentCreated notifies, for each lead time L of 24 h and 2 h
\* one patient reminder scheduled at start - L is requested if and only if
\* start and patient are known and start - L is strictly later than now; one
\* doctor notification with the same scheduled-at is requested exactly when
\* that reminder is and a doctor is known; there is no other reminder, so none
\* is scheduled at an instant that is not in the future.
C16_Reminders ==
    [][\A h \in Handlers :
          cr[h].pc = "notify" /\ cr'[h].pc = "done" =>
             LET c == cr[h]
                 known == c.start_dt # NULL /\ c.patient_id # NULL
                 IsReminder(n) == n.notif_type = "APPOINTMENT_REMINDER"
                 Due(L) == known /\ c.start_dt - L > now
             IN  /\ \A L \in LeadTimes :
                       /\ Reminders("patient", c.patient_id, c.start_dt - L) = One(Due(L))
                       /\ Reminders("doctor", c.doctor_id, c.start_dt - L)
                            = One(Due(L) /\ c.doctor_id # NULL)
                 /\ Count(Requested, IsReminder)
                      = Cardinality({L \in LeadTimes : Due(L)})
                        + Cardinality({L \in LeadTimes : Due(L) /\ c.doctor_id # NULL})
                 /\ \A i \in DOMAIN Requested :
                       IsReminder(Requested[i]) =>
                          /\ Requested[i].scheduled_at > now
                          /\ Requested[i].related_id = c.appt_id]_vars

\* C16 witness: the event for the appointment of 09:45 tomorrow, patient and
\* doctor known, handled at 09:45 today: the 24 h reminder is due exactly now
\* and is not requested, the 2 h one is requested for 07:45 tomorrow for both
C16_Witness ==
    /\ cr[1].pc = "done"
    /\ cr[1].outcome = "completed"
    /\ now = At(1, 9, 45)
    /\ cr[1].start_dt = At(2, 9, 45)
    /\ Len(notifications) = 2
    /\ notifications[1].role = "patient"
    /\ notifications[1].scheduled_at = At(2, 7, 45)
    /\ notifications[2].role = "doctor"
    /\ notifications[2].scheduled_at = At(2, 7, 45)

IsConflictNotification(n) == n.notif_type = "APPOINTMENT_CONFLICT"

\* C17: AppointmentCreated requests exactly one APPOINTMENT_CONFLICT
\* notification, to the doctor of the appointment, about the appointment and
\* carrying the whole conflict list, if and only if conflict detection
\* returned at least one conflict and a doctor is known; otherwise none,
\* however many conflicts there are; no other step requests one.
C17_OneConflictNotification ==
    [][\A h \in Handlers :
          IF cr[h].pc = "notify" /\ cr'[h].pc = "done"
          THEN LET c == cr[h]
                   found == c.detected /\ c.conflicts # <<>> /\ c.doctor_id # NULL
               IN  /\ Count(Requested, IsConflictNotification) = One(found)
                   /\ \A i \in DOMAIN Requested :
                         IsConflictNotification(Requested[i]) =>
                            /\ Requested[i].user_id = c.doctor_id
                            /\ Requested[i].related_id = c.appt_id
                            /\ Requested[i].meta = c.conflicts
          ELSE cr'[h] # cr[h] => Count(Requested, IsConflictNotification) = 0]_vars

\* C17 witness: the event found two conflicts with appointments 2 and 3 of the
\* doctor and requested one notification that carries both
C17_Witness ==
    /\ cr[1].pc = "done"
    /\ cr[1].outcome = "completed"
    /\ Len(cr[1].conflicts) >= 2
    /\ Count(notifications, IsConflictNotification) = 1
    /\ \E i \in DOMAIN notifications :
          /\ IsConflictNotification(notifications[i])
          /\ notifications[i].user_id = 21
          /\ notifications[i].meta = cr[1].conflicts
          /\ {notifications[i].meta[j].with_appointment_id : j \in DOMAIN notifications[i].meta}
               = {2, 3}

----------------------------------------------------------------------------
(* Properties of the tables the handlers write *)

ProceduresOf(visit_id) == {i \in DOMAIN vprocs : vprocs[i].visit_id = visit_id}

\* C18 as claimed: once an AppointmentCompleted event for an existing
\* appointment has been handled (visits and visit_procedures present, events
\* one at a time), and after any further ones, exactly one visit row exists for
\* the appointment, with status OPEN, and exactly one procedure row, the seed,
\* for that visit.
C18_VisitOnce ==
    (cp.pc = "done" /\ cp.appt_id \in DOMAIN appts /\ schema.visits_table /\ schema.vp_table)
        => /\ Cardinality(VisitsOf(cp.appt_id)) = 1
           /\ \A i \in VisitsOf(cp.appt_id) :
                 /\ visits[i].status = "OPEN"
                 /\ Cardinality(ProceduresOf(visits[i].id)) = 1

\* the step belongs to the handler of an event type
CreatedStep == cr' # cr
CompletedStep == cp' # cp
SweepStep == sweep' # sweep
AutoScheduleStep == events' # events /\ cr' = cr /\ cp' = cp /\ sweep' = sweep

C20_Persisted ==
    \A h \in Handlers :
        LET c == cr[h]
        IN  /\ (c.pc \in {"detect", "audit", "notify", "done"} /\ CreatedLoaded(h) /\ schema.pred_col)
                 => /\ appts[c.appt_id].predicted_duration_min = c.dur_min
                    /\ (schema.end_col /\ c.start_dt # NULL)
                          => appts[c.appt_id].scheduled_end_time = TimeOfDay(c.start_dt + c.dur_min)
            /\ (c.pc \in {"notify", "done"} /\ CreatedLoaded(h) /\ schema.pred_col /\ schema.audit_table)
                 => \E i \in DOMAIN audit :
                       /\ audit[i].appointment_id = c.appt_id
                       /\ audit[i].action = "CREATED"
                       /\ audit[i].meta.predicted_duration_min = c.dur_min
                       /\ c.outcome = "completed" => audit[i].meta.conflicts = c.conflicts

----------------------------------------------------------------------------
(* Properties of AppointmentCreated events for two appointments of a doctor *)

\* the handler has run its conflict scan
Scanned(h) == cr[h].pc \in {"audit", "notify", "done"} /\ "conflicts" \in DOMAIN cr[h]

\* the slots as booked, that is as each handler found its own row: from the
\* start to the booked end time, or for 30 minutes
SlotsOverlap ==
    /\ BookedStart(cr[1].row) < BookedEnd(cr[2].row)
    /\ BookedStart(cr[2].row) < BookedEnd(cr[1].row)

\* the intervals the handlers use for their own appointment, start + predicted
\* duration
PredictedOverlap == cr[1].start_dt < cr[2].end_dt /\ cr[2].start_dt < cr[1].end_dt

\* both handlers have finished without having seen a conflict
BothMissed ==
    \A h \in Handlers :
        cr[h].pc = "done" /\ cr[h].outcome = "completed" /\ cr[h].conflicts = <<>>

Audited(id) ==
    \E i \in DOMAIN audit : audit[i].appointment_id = id /\ audit[i].action = "CREATED"

NamesDoctorConflict(conflicts, id) ==
    \E k \in DOMAIN conflicts :
        conflicts[k].type = "DOCTOR" /\ conflicts[k].with_appointment_id = id

\* the handler of appointment i reported a DOCTOR conflict with appointment j
\* and requested the conflict notification to the doctor
ReportedAndNotified(i, j) ==
    /\ \E a \in DOMAIN audit :
          /\ audit[a].appointment_id = i /\ audit[a].action = "CREATED"
          /\ NamesDoctorConflict(audit[a].meta.conflicts, j)
    /\ \E n \in DOMAIN notifications :
          /\ IsConflictNotification(notifications[n])
          /\ notifications[n].related_id = i
          /\ notifications[n].user_id = appts[i].doctor_id
          /\ NamesDoctorConflict(notifications[n].meta, j)

\* the intervals [start, start + predicted duration) of two rows overlap
PredictedIntervalsOverlap(a, b) ==
    /\ BookedStart(a) < BookedStart(b) + Contracted(b.type)
    /\ BookedStart(b) < BookedStart(a) + Contracted(a.type)

\* C22: events handled one at a time, each row (stored start, known doctor,
\* active) inserted before its own event, the predicted-duration and end-time
\* columns present, the history fixed, nothing crossing midnight: once the
\* Created events of two appointments of one doctor whose intervals [start,
\* start + predicted duration) overlap have both been handled, in either
\* order, one of the two handlers has reported a DOCTOR conflict naming the
\* other appointment and requested the conflict notification to the doctor.
C22_OneOfTwoReports ==
    ( /\ DOMAIN appts = {1, 2}
      /\ cr[1].pc \in {"idle", "done"}
      /\ Audited(1) /\ Audited(2)
      /\ appts[1].doctor_id = appts[2].doctor_id
      /\ Active(appts[1]) /\ Active(appts[2])
      /\ PredictedIntervalsOverlap(appts[1], appts[2]) )
        => ReportedAndNotified(1, 2) \/ ReportedAndNotified(2, 1)

\* C22 witness: the root canal of 10:00 (90 minutes) was handled before the
\* consultation of 10:45 was booked, so its handler saw nothing; the handler
\* of the consultation then found the root canal to last until 11:30, reported
\* the conflict and notified the doctor
C22_Witness ==
    /\ DOMAIN appts = {1, 2}
    /\ cr[1].pc = "done"
    /\ cr[1].appt_id = 2
    /\ Len(audit) = 2
    /\ audit[1].appointment_id = 1
    /\ audit[1].meta.conflicts = <<>>
    /\ appts[1].predicted_duration_min = 90
    /\ BookedStart(appts[2]) = At(1, 10, 45)
    /\ ReportedAndNotified(2, 1)
    /\ ~ReportedAndNotified(1, 2)

====
